---- MODULE Spec2Model ----
(***************************************************************************)
(* FloodLink: level-transition detection and alert-state bookkeeping of    *)
(* the two flood-risk evaluators,                                          *)
(*   floodlink_glofas_hotspots.py  (script = "glofas")                     *)
(*   livefloodengine.py            (script = "live")                       *)
(*                                                                         *)
(* Coordinates are integers in units of 1e-5 degree.  A rounded coordinate *)
(* (round(x, 4)) is an integer in units of 1e-4 degree; a formatted        *)
(* coordinate (f"{x:.4f}") is a string.  Scores are exact rationals kept   *)
(* as integer numerators over a fixed denominator.                         *)
(***************************************************************************)
EXTENDS Integers, Sequences, FiniteSets, TLC

VARIABLES
    script,            \* which evaluator this deployment runs
    snapshotFile,      \* the comparison JSON at the base path
    ledgerFile,        \* the tweet-log JSON
    slots,             \* which rotated snapshots <prefix>_i.json exist (glofas)
    pc,                \* position of main()
    valid_coords,      \* main's valid_coords (live)
    prev_alerts_dict,  \* main's prev_alerts_dict
    alerts,            \* main's alerts list
    changes,           \* main's changes list
    idx,               \* number of entries of changes already iterated
    tweeted_alerts,    \* main's in-memory ledger
    loaded_ledger,     \* what load_tweeted_alerts returned to this run
    tweets,            \* the calls of tweet_alert made by this run
    skipped,           \* the changes this run skipped without notifying
    everNotifiable,    \* rounded keys seen at a tweet-worthy level in the
                       \* previous or current mapping of some run
    raised,            \* positions in changes whose post raised in tweet_alert
    fetches,           \* the calls of fetch_weather made by this run (live):
                       \* the row's JOIN_ID and what its requests met
    run,               \* how many runs have started, where runs are counted
    arg,               \* the arguments of a function applied on its own
    ret,               \* what it returned
    trail,             \* the last completed runs, oldest first: the level each
                       \* run gave each site and the sites it notified
    clock,             \* time.time(), in seconds
    last_tweet_ts,     \* main's last_tweet_ts
    sends,             \* the calls of tweet_alert of this run where time is
                       \* followed: when each was made and the sleep before it
    peer,              \* the frame of main in a second process of the script
    overlapped,        \* whether that process and this one ran at the same time
    newsFile,          \* floodlink_news.json, the processed log of the news bot
    replyFile,         \* floodlink_replies.json, its reply log
    today,             \* the UTC day, counted from the bot's first one
    lastRun,           \* what the last run of the news bot did
    posted             \* what the news bot posted on this UTC day, and
                       \* whether each save of that day wrote its file

vars == <<script, snapshotFile, ledgerFile, slots, pc, valid_coords,
          prev_alerts_dict, alerts, changes, idx, tweeted_alerts,
          loaded_ledger, tweets, skipped, everNotifiable, raised, fetches,
          run, arg, ret, trail, clock, last_tweet_ts, sends, peer, overlapped,
          newsFile, replyFile, today, lastRun, posted>>

\* the state of the news bot, which no evaluator touches
newsVars == <<newsFile, replyFile, today, lastRun, posted>>

-----------------------------------------------------------------------------
(* Configuration of the two scripts *)

LEVELS == <<"None", "Low", "Medium", "High", "Extreme">>
TWEET_LEVELS == <<"Medium", "High", "Extreme">>
ALERT_ON_UPGRADES == TRUE
ALERT_ON_DOWNGRADES == TRUE

LIVE_LEVELS == <<"None", "Low", "Medium", "High", "Extreme">>
LIVE_TWEET_LEVELS == <<"Medium", "High", "Extreme">>
LIVE_ALERT_ON_UPGRADES == TRUE
LIVE_ALERT_ON_DOWNGRADES == TRUE

COMPARISON_HISTORY == 5

\* Python's `x in list`
InList(x, list) == \E i \in 1..Len(list) : list[i] = x

\* Python's list.index(x): the first position holding x
ListIndex(list, x) ==
    CHOOSE i \in 1..Len(list) :
        list[i] = x /\ \A j \in 1..(i - 1) : list[j] # x

-----------------------------------------------------------------------------
(* Keys *)

\* |x| rounded to 4 decimals, in units of 1e-4 (x carries 5 decimals and is
\* never an exact tie)
RoundMag4(x) == ((IF x < 0 THEN -x ELSE x) + 5) \div 10

\* round(x, 4): -0.0 and 0.0 are equal and hash alike, so both are 0 here
Round4(x) == IF x < 0 THEN -RoundMag4(x) ELSE RoundMag4(x)

Pad4(n) ==
    IF n < 10 THEN "000" \o ToString(n)
    ELSE IF n < 100 THEN "00" \o ToString(n)
    ELSE IF n < 1000 THEN "0" \o ToString(n)
    ELSE ToString(n)

\* f"{x:.4f}": the sign of a negative x is kept even when it rounds to zero
Fmt4(x) ==
    (IF x < 0 THEN "-" ELSE "")
        \o ToString(RoundMag4(x) \div 10000) \o "." \o Pad4(RoundMag4(x) % 10000)

\* (round(a["latitude"], 4), round(a["longitude"], 4))
AlertKey(a) == <<Round4(a.latitude), Round4(a.longitude)>>

\* f"{alert['latitude']:.4f},{alert['longitude']:.4f}"
LedgerKey(a) == Fmt4(a.latitude) \o "," \o Fmt4(a.longitude)

-----------------------------------------------------------------------------
(* Insertion-ordered dict: a sequence of [key, val] with distinct keys *)

DictHas(d, k) == \E i \in 1..Len(d) : d[i].key = k

DictGet(d, k) == d[CHOOSE i \in 1..Len(d) : d[i].key = k].val

\* d[k] = v: a present key keeps its position and takes the new value
DictPut(d, k, v) ==
    IF DictHas(d, k)
    THEN [i \in 1..Len(d) |-> IF d[i].key = k THEN [key |-> d[i].key, val |-> v] ELSE d[i]]
    ELSE Append(d, [key |-> k, val |-> v])

\* build_alert_dict keeping, for a key, the first record that has it
RECURSIVE build_alert_dict_keeps_first(_)
build_alert_dict_keeps_first(as) ==
    IF as = <<>> THEN <<>>
    ELSE LET front == build_alert_dict_keeps_first(SubSeq(as, 1, Len(as) - 1))
             a == as[Len(as)]
         IN IF DictHas(front, AlertKey(a)) THEN front
            ELSE Append(front, [key |-> AlertKey(a), val |-> a])

RECURSIVE build_alert_dict(_)
build_alert_dict(as) ==
    IF as = <<>> THEN <<>>
    ELSE LET front == SubSeq(as, 1, Len(as) - 1)
             a == as[Len(as)]
         IN DictPut(build_alert_dict(front), AlertKey(a), a)

-----------------------------------------------------------------------------
(* compare_alerts *)

\* compare_one taking an unchanged level for an upgrade (no early continue,
\* >= for >)
compare_one_upgrade_ge(prev, key, c) ==
    LET cur_lvl == c.dynamic_level IN
    IF ~DictHas(prev, key)
    THEN IF InList(cur_lvl, TWEET_LEVELS) THEN << <<"New", c>> >> ELSE <<>>
    ELSE LET prev_lvl == DictGet(prev, key).dynamic_level
             prev_i == ListIndex(LEVELS, prev_lvl)
             cur_i == ListIndex(LEVELS, cur_lvl)
         IN IF ALERT_ON_UPGRADES /\ cur_i >= prev_i /\ InList(cur_lvl, TWEET_LEVELS)
            THEN << <<"Upgrade", c>> >>
            ELSE IF ALERT_ON_DOWNGRADES /\ cur_i < prev_i
                    /\ InList(prev_lvl, TWEET_LEVELS)
                 THEN << <<"Downgrade", c>> >>
                 ELSE <<>>

\* compare_one without the tweet-worthy test on an upgrade
compare_one_upgrade_any(prev, key, c) ==
    LET cur_lvl == c.dynamic_level IN
    IF ~DictHas(prev, key)
    THEN IF InList(cur_lvl, TWEET_LEVELS) THEN << <<"New", c>> >> ELSE <<>>
    ELSE LET prev_lvl == DictGet(prev, key).dynamic_level IN
         IF prev_lvl = cur_lvl THEN <<>>
         ELSE LET prev_i == ListIndex(LEVELS, prev_lvl)
                  cur_i == ListIndex(LEVELS, cur_lvl)
              IN IF ALERT_ON_UPGRADES /\ cur_i > prev_i
                 THEN << <<"Upgrade", c>> >>
                 ELSE IF ALERT_ON_DOWNGRADES /\ cur_i < prev_i
                         /\ InList(prev_lvl, TWEET_LEVELS)
                      THEN << <<"Downgrade", c>> >>
                      ELSE <<>>

\* compare_one testing the current level, not the previous, on a downgrade
compare_one_downgrade_cur(prev, key, c) ==
    LET cur_lvl == c.dynamic_level IN
    IF ~DictHas(prev, key)
    THEN IF InList(cur_lvl, TWEET_LEVELS) THEN << <<"New", c>> >> ELSE <<>>
    ELSE LET prev_lvl == DictGet(prev, key).dynamic_level IN
         IF prev_lvl = cur_lvl THEN <<>>
         ELSE LET prev_i == ListIndex(LEVELS, prev_lvl)
                  cur_i == ListIndex(LEVELS, cur_lvl)
              IN IF ALERT_ON_UPGRADES /\ cur_i > prev_i /\ InList(cur_lvl, TWEET_LEVELS)
                 THEN << <<"Upgrade", c>> >>
                 ELSE IF ALERT_ON_DOWNGRADES /\ cur_i < prev_i
                         /\ InList(cur_lvl, TWEET_LEVELS)
                      THEN << <<"Downgrade", c>> >>
                      ELSE <<>>

\* compare_one appending the previous record of the site on a downgrade
compare_one_prev_record(prev, key, c) ==
    LET cur_lvl == c.dynamic_level IN
    IF ~DictHas(prev, key)
    THEN IF InList(cur_lvl, TWEET_LEVELS) THEN << <<"New", c>> >> ELSE <<>>
    ELSE LET prev_lvl == DictGet(prev, key).dynamic_level IN
         IF prev_lvl = cur_lvl THEN <<>>
         ELSE LET prev_i == ListIndex(LEVELS, prev_lvl)
                  cur_i == ListIndex(LEVELS, cur_lvl)
              IN IF ALERT_ON_UPGRADES /\ cur_i > prev_i /\ InList(cur_lvl, TWEET_LEVELS)
                 THEN << <<"Upgrade", c>> >>
                 ELSE IF ALERT_ON_DOWNGRADES /\ cur_i < prev_i
                         /\ InList(prev_lvl, TWEET_LEVELS)
                      THEN << <<"Downgrade", DictGet(prev, key)>> >>
                      ELSE <<>>

\* one iteration of the loop body of compare_alerts (glofas): the changes it
\* appends for the item (key, c) of curr
compare_one(prev, key, c) ==
    LET cur_lvl == c.dynamic_level IN
    IF ~DictHas(prev, key)
    THEN IF InList(cur_lvl, TWEET_LEVELS) THEN << <<"New", c>> >> ELSE <<>>
    ELSE LET prev_lvl == DictGet(prev, key).dynamic_level IN
         IF prev_lvl = cur_lvl THEN <<>>
         ELSE LET prev_i == ListIndex(LEVELS, prev_lvl)
                  cur_i == ListIndex(LEVELS, cur_lvl)
              IN IF ALERT_ON_UPGRADES /\ cur_i > prev_i /\ InList(cur_lvl, TWEET_LEVELS)
                 THEN << <<"Upgrade", c>> >>
                 ELSE IF ALERT_ON_DOWNGRADES /\ cur_i < prev_i
                         /\ InList(prev_lvl, TWEET_LEVELS)
                      THEN << <<"Downgrade", c>> >>
                      ELSE <<>>

RECURSIVE compare_alerts(_, _)
compare_alerts(prev, curr) ==
    IF curr = <<>> THEN <<>>
    ELSE compare_alerts(prev, SubSeq(curr, 1, Len(curr) - 1))
            \o compare_one(prev, curr[Len(curr)].key, curr[Len(curr)].val)

\* live_compare_one reporting every unseen site as New, whatever its level
live_compare_one_new_any(prev, key, c) ==
    LET cur_lvl == c.dynamic_level IN
    IF ~DictHas(prev, key)
    THEN << <<"New", c>> >>
    ELSE LET prev_lvl == DictGet(prev, key).dynamic_level IN
         IF prev_lvl = cur_lvl THEN <<>>
         ELSE LET prev_i == ListIndex(LIVE_LEVELS, prev_lvl)
                  cur_i == ListIndex(LIVE_LEVELS, cur_lvl)
              IN IF LIVE_ALERT_ON_UPGRADES /\ cur_i > prev_i
                    /\ InList(cur_lvl, LIVE_TWEET_LEVELS)
                 THEN << <<"Upgrade", c>> >>
                 ELSE IF LIVE_ALERT_ON_DOWNGRADES /\ cur_i < prev_i
                         /\ InList(prev_lvl, LIVE_TWEET_LEVELS)
                      THEN << <<"Downgrade", c>> >>
                      ELSE <<>>

\* the same loop body in livefloodengine.py
live_compare_one(prev, key, c) ==
    LET cur_lvl == c.dynamic_level IN
    IF ~DictHas(prev, key)
    THEN IF InList(cur_lvl, LIVE_TWEET_LEVELS) THEN << <<"New", c>> >> ELSE <<>>
    ELSE LET prev_lvl == DictGet(prev, key).dynamic_level IN
         IF prev_lvl = cur_lvl THEN <<>>
         ELSE LET prev_i == ListIndex(LIVE_LEVELS, prev_lvl)
                  cur_i == ListIndex(LIVE_LEVELS, cur_lvl)
              IN IF LIVE_ALERT_ON_UPGRADES /\ cur_i > prev_i
                    /\ InList(cur_lvl, LIVE_TWEET_LEVELS)
                 THEN << <<"Upgrade", c>> >>
                 ELSE IF LIVE_ALERT_ON_DOWNGRADES /\ cur_i < prev_i
                         /\ InList(prev_lvl, LIVE_TWEET_LEVELS)
                      THEN << <<"Downgrade", c>> >>
                      ELSE <<>>

RECURSIVE live_compare_alerts(_, _)
live_compare_alerts(prev, curr) ==
    IF curr = <<>> THEN <<>>
    ELSE live_compare_alerts(prev, SubSeq(curr, 1, Len(curr) - 1))
            \o live_compare_one(prev, curr[Len(curr)].key, curr[Len(curr)].val)

-----------------------------------------------------------------------------
(* Files *)

\* a path: whether a file is there, whether its text parses as JSON, and the
\* value it parses to
NoFile == [exists |-> FALSE, parses |-> FALSE, content |-> <<>>]
FileOf(c) == [exists |-> TRUE, parses |-> TRUE, content |-> c]

\* what open(path, "w") leaves when the dump after it does not complete
Truncated == [exists |-> TRUE, parses |-> FALSE, content |-> <<>>]

\* json.load(f) raises on a file that is there and does not parse
LoadRaises(file) == file.exists /\ ~file.parses

\* load_json answering an absent file with a snapshot that holds a record
load_json_absent_nonempty(file) ==
    IF file.exists THEN file.content
    ELSE [alerts |-> << [latitude |-> 4000004, longitude |-> -370000,
                         raw_dynamic_score |-> 50, dynamic_level |-> "High"] >>]

\* load_json: {"alerts": []} when the file is absent
load_json(file) ==
    IF file.exists THEN file.content ELSE [alerts |-> <<>>]

\* load_tweeted_alerts: {} when the file is absent
load_tweeted_alerts(file) ==
    IF file.exists THEN file.content ELSE <<>>

\* tweeted[key] = entry that also drops every entry some other key holds for
\* a notifiable level
SetEntry_drops_others(tweeted, key, entry) ==
    [k \in { h \in DOMAIN tweeted : tweeted[h].risk_level \notin {"Medium", "High", "Extreme"} }
            \cup {key} |->
        IF k = key THEN entry ELSE tweeted[k]]

\* tweeted[key] = entry on a Python dict whose order nothing reads
SetEntry(tweeted, key, entry) ==
    [k \in (DOMAIN tweeted) \cup {key} |-> IF k = key THEN entry ELSE tweeted[k]]

\* rotate_comparison_snapshots on fs, a function on 0..max_history where
\* fs[0] is the file at base_path and fs[i] the file <prefix>_i<ext>
RECURSIVE RotateShift(_, _)
RotateShift(fs, i) ==
    IF i < 1 THEN fs
    ELSE RotateShift(
            IF fs[i].exists
            THEN [fs EXCEPT ![i + 1] = fs[i], ![i] = NoFile]
            ELSE fs,
            i - 1)

\* rotate_comparison_snapshots shifting the file max_history up as well
rotate_comparison_snapshots_one_more(fs, max_history) ==
    LET shifted == RotateShift(fs, max_history) IN
    IF shifted[0].exists
    THEN [shifted EXCEPT ![1] = shifted[0], ![0] = NoFile]
    ELSE shifted

\* rotate_comparison_snapshots copying the base file to slot 1, not moving it
rotate_comparison_snapshots_copy(fs, max_history) ==
    LET shifted == RotateShift(fs, max_history - 1) IN
    IF shifted[0].exists
    THEN [shifted EXCEPT ![1] = shifted[0]]
    ELSE shifted

rotate_comparison_snapshots(fs, max_history) ==
    LET shifted == RotateShift(fs, max_history - 1) IN
    IF shifted[0].exists
    THEN [shifted EXCEPT ![1] = shifted[0], ![0] = NoFile]
    ELSE shifted

-----------------------------------------------------------------------------
(* Source data *)

\* the monitored points, in source order (1e-5 degree)
SITES == << [latitude |-> 4000012, longitude |-> -370000],
            [latitude |-> 4000004, longitude |-> -370000] >>

\* return periods a hotspot of each point is reported with; <<>> is a hotspot
\* without the key, <<n>> one with "return_period": n
SITE_RETURN_PERIODS == << {<<>>, <<1>>, <<2>>, <<5>>, <<20>>}, {<<1>>, <<5>>} >>

\* the hotspot dict of point n: without the key "return_period", or with
\* the number under it
Hotspot(n, rp) ==
    IF rp = <<>>
    THEN [latitude |-> SITES[n].latitude, longitude |-> SITES[n].longitude]
    ELSE [latitude |-> SITES[n].latitude, longitude |-> SITES[n].longitude,
          return_period |-> rp]

\* the hotspot dict of point n with "return_period": None (None is <<>>)
HotspotWithNone(n) ==
    [latitude |-> SITES[n].latitude, longitude |-> SITES[n].longitude,
     return_period |-> <<>>]

\* h.get(key, default)
Get(h, key, default) == IF key \in DOMAIN h THEN h[key] ELSE default

\* the hotspot lists fetch_glofas_hotspots may return over the first n points
RECURSIVE HotspotLists(_)
HotspotLists(n) ==
    IF n = 0 THEN {<<>>}
    ELSE LET shorter == HotspotLists(n - 1) IN
         shorter \cup
         { Append(l, Hotspot(n, rp)) :
             l \in shorter, rp \in SITE_RETURN_PERIODS[n] }

\* h.get("return_period"): None is <<>>
return_period_to_level(rp) ==
    IF rp = <<>> THEN "Medium"
    ELSE IF rp[1] >= 20 THEN "Extreme"
    ELSE IF rp[1] >= 5 THEN "High"
    ELSE IF rp[1] >= 2 THEN "Medium"
    ELSE "Low"

\* h.get("return_period", 2) * 10.0 (line 389) raises TypeError when the
\* key is there with None under it: the default is for a missing key only
BuildRaises(h) == Get(h, "return_period", <<2>>) = <<>>

\* the fields of the alert the diff and the ledger read; the score is
\* float(h.get("return_period", 2) * 10.0)
build_alert_from_hotspot(h) ==
    [latitude |-> h.latitude,
     longitude |-> h.longitude,
     raw_dynamic_score |-> Get(h, "return_period", <<2>>)[1] * 10,
     dynamic_level |-> return_period_to_level(Get(h, "return_period", <<>>))]

-----------------------------------------------------------------------------
(* Source data and risk model of the live evaluator.  Units: FRisk in tenths,
   rain in cm (10 mm), soil fraction in seventeenths (one step adds 0.05 to
   the multiplier), humidity in steps of 20 %. *)

RISK_THRESHOLD == 85

\* the FRisk a CSV row of each point may carry
SITE_FRISK == << {80, 90}, {80, 90} >>

\* what compute_indicators makes of the payload Open-Meteo may answer with
\* for each point: (rain_sum, rh_avg, soil_avg)
SITE_WEATHER ==
    << { << [rain |-> r, rh |-> 0, soil |-> 0] >> : r \in {0, 2, 10, 20, 45} },
       { << [rain |-> r, rh |-> 0, soil |-> 0] >> : r \in {2, 20} } >>

MAX_RETRIES == 1

\* the exceptions a request for each point may raise, among those
\* fetch_weather has a clause for
SITE_FETCH_ERRORS ==
    << {"ReadTimeout", "ConnectionError", "RequestException"}, {"ReadTimeout"} >>

\* what one attempt of fetch_weather for point n may meet: requests.get or
\* raise_for_status raises, or r.json() gives a payload
Responses(n) ==
    { [raises |-> e, json |-> <<>>] : e \in SITE_FETCH_ERRORS[n] }
        \cup { [raises |-> "", json |-> w] : w \in SITE_WEATHER[n] }

\* the attempts of fetch_weather from the given one on; None is <<>>
RECURSIVE FetchAttempt(_, _)
FetchAttempt(responses, attempt) ==
    IF attempt > MAX_RETRIES THEN <<>>
    ELSE LET r == responses[attempt] IN
         IF r.raises = "" THEN r.json
         ELSE IF r.raises \in {"ReadTimeout", "ConnectionError"}
              THEN FetchAttempt(responses, attempt + 1)
              ELSE <<>>

\* fetch_weather answering a failure with an empty forecast, not with None
fetch_weather_never_none(responses) ==
    IF FetchAttempt(responses, 1) = <<>>
    THEN << [rain |-> 0, rh |-> 0, soil |-> 0] >>
    ELSE FetchAttempt(responses, 1)

\* fetch_weather on what its attempts 1..MAX_RETRIES would meet
fetch_weather(responses) == FetchAttempt(responses, 1)

\* the CSV tables pd.read_csv may give over the first n points
RECURSIVE CsvTables(_)
CsvTables(n) ==
    IF n = 0 THEN {<<>>}
    ELSE LET shorter == CsvTables(n - 1) IN
         shorter \cup
         { Append(t, [JOIN_ID |-> n,
                      Latitude |-> SITES[n].latitude,
                      Longitude |-> SITES[n].longitude,
                      FRisk |-> f]) :
             t \in shorter, f \in SITE_FRISK[n] }

\* for each point, what each attempt of a fetch would meet
WeatherChoices ==
    { w \in [1..Len(SITES) ->
                UNION { [1..MAX_RETRIES -> Responses(n)] : n \in 1..Len(SITES) }] :
        \A n \in 1..Len(SITES) : \A a \in 1..MAX_RETRIES : w[n][a] \in Responses(n) }

Max(a, b) == IF a >= b THEN a ELSE b
Min(a, b) == IF a <= b THEN a ELSE b

\* max(0.0, rain_mm / RAIN_UNIT_MM), over 10
rainfall_multiplier(rain) == Max(0, rain)

\* SOIL_MIN_MULT + s * (SOIL_MAX_MULT - SOIL_MIN_MULT), over 20
soil_multiplier(soil) == 19 + Max(0, Min(17, soil))

\* HUM_MIN_MULT + (rh / 100.0) * (HUM_MAX_MULT - HUM_MIN_MULT), over 100
humidity_multiplier(rh) == 100 + Max(0, Min(5, rh))

\* the denominator of raw_score: 10 (FRisk) * 10 * 20 * 100
SCORE_DEN == 200000
RAIN_CUTOFF == 0
RAW_LOW_MAX == 5
RAW_MED_MAX == 15
RAW_HIGH_MAX == 35

\* calculate_dynamic_risk_raw answering rain under the cutoff with Low
calculate_dynamic_risk_raw_cutoff_low(base_risk, rain, rh, soil) ==
    IF rain < RAIN_CUTOFF THEN [raw_score |-> 0, level |-> "Low"]
    ELSE LET raw == Max(0, base_risk) * rainfall_multiplier(rain)
                        * soil_multiplier(soil) * humidity_multiplier(rh)
         IN [raw_score |-> (raw + (SCORE_DEN \div 2000)) \div (SCORE_DEN \div 1000),
             level |-> IF raw = 0 THEN "None"
                       ELSE IF raw < RAW_LOW_MAX * SCORE_DEN THEN "Low"
                       ELSE IF raw < RAW_MED_MAX * SCORE_DEN THEN "Medium"
                       ELSE IF raw < RAW_HIGH_MAX * SCORE_DEN THEN "High"
                       ELSE "Extreme"]

\* calculate_dynamic_risk_raw with bands closed above (<= for <)
calculate_dynamic_risk_raw_closed(base_risk, rain, rh, soil) ==
    IF rain < RAIN_CUTOFF THEN [raw_score |-> 0, level |-> "None"]
    ELSE LET raw == Max(0, base_risk) * rainfall_multiplier(rain)
                        * soil_multiplier(soil) * humidity_multiplier(rh)
         IN [raw_score |-> (raw + (SCORE_DEN \div 2000)) \div (SCORE_DEN \div 1000),
             level |-> IF raw = 0 THEN "None"
                       ELSE IF raw <= RAW_LOW_MAX * SCORE_DEN THEN "Low"
                       ELSE IF raw <= RAW_MED_MAX * SCORE_DEN THEN "Medium"
                       ELSE IF raw <= RAW_HIGH_MAX * SCORE_DEN THEN "High"
                       ELSE "Extreme"]

\* calculate_dynamic_risk_raw: (round(raw_score, 3) in thousandths, level)
calculate_dynamic_risk_raw(base_risk, rain, rh, soil) ==
    IF rain < RAIN_CUTOFF THEN [raw_score |-> 0, level |-> "None"]
    ELSE LET raw == Max(0, base_risk) * rainfall_multiplier(rain)
                        * soil_multiplier(soil) * humidity_multiplier(rh)
         IN [raw_score |-> (raw + (SCORE_DEN \div 2000)) \div (SCORE_DEN \div 1000),
             level |-> IF raw = 0 THEN "None"
                       ELSE IF raw < RAW_LOW_MAX * SCORE_DEN THEN "Low"
                       ELSE IF raw < RAW_MED_MAX * SCORE_DEN THEN "Medium"
                       ELSE IF raw < RAW_HIGH_MAX * SCORE_DEN THEN "High"
                       ELSE "Extreme"]

\* a payload r.json() gives with no hourly time series: a dict that is not
\* empty, whose hourly.time is missing or []
NO_TIME_SERIES == << [times |-> 0] >>

\* compute_indicators: the tuple it returns; with no times it returns five
\* zeros (line 111), otherwise (rain_sum, rh_avg, soil_avg) (line 143)
compute_indicators(api_data) ==
    IF api_data = NO_TIME_SERIES THEN <<0, 0, 0, 0, 0>>
    ELSE <<api_data[1].rain, api_data[1].rh, api_data[1].soil>>

\* rain_sum, rh_avg, soil_avg = compute_indicators(data) (line 331) raises
\* ValueError unless the tuple has three items
UnpackRaises(data) == Len(compute_indicators(data)) # 3

\* the loop of main over high_risk: one alert per row whose fetch succeeded
RECURSIVE EvaluateRows(_, _)
EvaluateRows(rows, weather) ==
    IF rows = <<>> THEN <<>>
    ELSE LET row == rows[Len(rows)]
             before == EvaluateRows(SubSeq(rows, 1, Len(rows) - 1), weather)
             data == fetch_weather(weather[row.JOIN_ID])
         IN IF row.FRisk > RISK_THRESHOLD /\ data # <<>>
            THEN LET indicators == compute_indicators(data)
                     risk == calculate_dynamic_risk_raw(
                                row.FRisk, indicators[1], indicators[2], indicators[3])
                 IN Append(before, [latitude |-> row.Latitude,
                                    longitude |-> row.Longitude,
                                    raw_dynamic_score |-> risk.raw_score,
                                    dynamic_level |-> risk.level])
            ELSE before

\* the calls fetch_weather(lat, lon) of that loop, one per row of high_risk
RECURSIVE FetchCalls(_, _)
FetchCalls(rows, weather) ==
    IF rows = <<>> THEN <<>>
    ELSE LET row == rows[Len(rows)]
             before == FetchCalls(SubSeq(rows, 1, Len(rows) - 1), weather)
         IN IF row.FRisk > RISK_THRESHOLD
            THEN Append(before, [JOIN_ID |-> row.JOIN_ID,
                                 FRisk |-> row.FRisk,
                                 responses |-> weather[row.JOIN_ID]])
            ELSE before

\* whether that loop is left by the ValueError of the unpacking at some row
LoopUnpackRaises(rows, weather) ==
    \E i \in 1..Len(rows) :
        /\ rows[i].FRisk > RISK_THRESHOLD
        /\ fetch_weather(weather[rows[i].JOIN_ID]) # <<>>
        /\ UnpackRaises(fetch_weather(weather[rows[i].JOIN_ID]))

\* {f"{row['Latitude']:.4f},{row['Longitude']:.4f}" for _, row in df.iterrows()}
ValidCoords(df) ==
    { Fmt4(df[i].Latitude) \o "," \o Fmt4(df[i].Longitude) : i \in 1..Len(df) }

\* cleanup_tweeted_alerts with the filter inverted
cleanup_keep_invalid(tweeted, valid) ==
    [k \in { x \in DOMAIN tweeted : x \notin valid } |-> tweeted[k]]

cleanup_tweeted_alerts(tweeted, valid) ==
    [k \in { x \in DOMAIN tweeted : x \in valid } |-> tweeted[k]]

-----------------------------------------------------------------------------
(* JSON text.  json.dump writes a float as the shortest decimal text that
   reads back to it, a string between quotes and True as true; json.load
   reads them back.  A text is a sequence of characters; a number of the
   model with k decimals stands for the float of that decimal value. *)

COORD_DECIMALS == 5

\* decimals of raw_dynamic_score: rp * 10.0 in glofas, round(raw_score, 3) in
\* live
ScoreDecimals == IF script = "glofas" THEN 0 ELSE 3

RECURSIVE Pow10(_)
Pow10(k) == IF k = 0 THEN 1 ELSE 10 * Pow10(k - 1)

\* the decimal digits of n >= 0
RECURSIVE DigitChars(_)
DigitChars(n) ==
    IF n < 10 THEN << ToString(n) >>
    ELSE Append(DigitChars(n \div 10), ToString(n % 10))

\* the k digits of f < 10^k, leading zeros kept
RECURSIVE FixedChars(_, _)
FixedChars(f, k) ==
    IF k = 0 THEN <<>>
    ELSE Append(FixedChars(f \div 10, k - 1), ToString(f % 10))

\* the k digits of the fraction f < 10^k without its trailing zeros, one
\* digit at least
RECURSIVE FractionChars(_, _)
FractionChars(f, k) ==
    IF k = 0 THEN << "0" >>
    ELSE IF k > 1 /\ f % 10 = 0 THEN FractionChars(f \div 10, k - 1)
    ELSE FixedChars(f, k)

\* float.__repr__ cut to the decimals of the format string "%.4f"-like
JsonNumber_fixed4(x, k) ==
    LET scale == IF k > 4 THEN Pow10(k - 4) ELSE 1
        mag == ((IF x < 0 THEN -x ELSE x) \div scale) * scale
    IN (IF x < 0 THEN << "-" >> ELSE <<>>)
          \o DigitChars(mag \div Pow10(k)) \o << "." >> \o FractionChars(mag % Pow10(k), k)

\* float.__repr__ of the float x stands for
JsonNumber(x, k) ==
    LET mag == IF x < 0 THEN -x ELSE x
    IN (IF x < 0 THEN << "-" >> ELSE <<>>)
          \o DigitChars(mag \div Pow10(k)) \o << "." >> \o FractionChars(mag % Pow10(k), k)

DigitOf(c) == CHOOSE d \in 0..9 : ToString(d) = c

\* the value of a sequence of digits
RECURSIVE DigitsValue(_)
DigitsValue(cs) ==
    IF cs = <<>> THEN 0
    ELSE 10 * DigitsValue(SubSeq(cs, 1, Len(cs) - 1)) + DigitOf(cs[Len(cs)])

\* float(text), in units of 10^-k
JsonParseNumber(text, k) ==
    LET neg == text[1] = "-"
        body == IF neg THEN SubSeq(text, 2, Len(text)) ELSE text
        dot == CHOOSE i \in 1..Len(body) : body[i] = "."
        whole == SubSeq(body, 1, dot - 1)
        frac == SubSeq(body, dot + 1, Min(Len(body), dot + k))
        mag == DigitsValue(whole) * Pow10(k) + DigitsValue(frac) * Pow10(k - Len(frac))
    IN IF neg THEN -mag ELSE mag

\* the decimals the number under a key carries; -1 for a key that holds no
\* number
NumberDecimals(f) ==
    IF f \in {"latitude", "longitude"} THEN COORD_DECIMALS
    ELSE IF f = "raw_dynamic_score" THEN ScoreDecimals
    ELSE -1

\* json.dump of a dict of floats, strings and True
JsonObject(r) ==
    [f \in DOMAIN r |->
        IF NumberDecimals(f) >= 0 THEN JsonNumber(r[f], NumberDecimals(f))
        ELSE IF f = "resolved" THEN << "t", "r", "u", "e" >>
        ELSE << "\"", r[f], "\"" >>]

\* json.load of that text
JsonParseObject(t) ==
    [f \in DOMAIN t |->
        IF NumberDecimals(f) >= 0 THEN JsonParseNumber(t[f], NumberDecimals(f))
        ELSE IF f = "resolved" THEN t[f] = << "t", "r", "u", "e" >>
        ELSE t[f][2]]

\* the result main persists: the number of alerts and the alerts (the
\* timestamp and the source are read by nothing)
Result(as) == [features_evaluated |-> Len(as), alerts |-> as]

\* the snapshot write leaving a file without any alert
SnapshotWritten_nothing(result) == [features_evaluated |-> 0, alerts |-> <<>>]

\* what json.load gives for the file json.dump(result, f) wrote
SnapshotWritten(result) ==
    LET text == [i \in 1..Len(result.alerts) |-> JsonObject(result.alerts[i])]
    IN [features_evaluated |-> DigitsValue(DigitChars(result.features_evaluated)),
        alerts |-> [i \in 1..Len(text) |-> JsonParseObject(text[i])]]

\* what json.load gives for the file save_tweeted_alerts wrote
LedgerWritten(tweeted) ==
    LET text == [k \in DOMAIN tweeted |-> JsonObject(tweeted[k])]
    IN [k \in DOMAIN text |-> JsonParseObject(text[k])]

-----------------------------------------------------------------------------
(* main() of both scripts *)

NoSlots == [i \in 1..COMPARISON_HISTORY |-> FALSE]

\* the levels that are notifiable
Notifiable == {"Medium", "High", "Extreme"}

\* history kept for the properties: the keys of d whose record is at a
\* notifiable level
NotifiableKeys(d) ==
    { d[i].key : i \in { j \in 1..Len(d) : d[j].val.dynamic_level \in Notifiable } }

\* no second process
NoPeer == [pc |-> "idle"]

\* what the specifications that follow neither earlier runs, nor time, nor a
\* second process keep fixed
NoRun == [type |-> "", feed |-> {}, scored |-> {}, attempted |-> {}, tweeted |-> {},
          selected |-> <<>>, replied |-> FALSE]

NothingPosted == [news |-> 0, statistical |-> 0, infrastructure |-> 0, reply |-> 0,
                  saved |-> TRUE]

\* posts are counted on a day up to a save of that day that did not write
\* its file
Unsaved == [NothingPosted EXCEPT !.saved = FALSE]

\* the news bot before its first run: neither log is there
NewsBotIdle ==
    /\ newsFile = NoFile
    /\ replyFile = NoFile
    /\ today = 0
    /\ lastRun = NoRun
    /\ posted = NothingPosted

Unfollowed ==
    /\ trail = <<>>
    /\ clock = 0
    /\ last_tweet_ts = 0
    /\ sends = <<>>
    /\ peer = NoPeer
    /\ overlapped = FALSE

Init ==
    /\ script \in {"glofas", "live"}
    /\ snapshotFile = NoFile
    /\ ledgerFile = NoFile
    /\ slots = NoSlots
    /\ pc = "idle"
    /\ valid_coords = {}
    /\ prev_alerts_dict = <<>>
    /\ alerts = <<>>
    /\ changes = <<>>
    /\ idx = 0
    /\ tweeted_alerts = <<>>
    /\ loaded_ledger = <<>>
    /\ tweets = <<>>
    /\ skipped = <<>>
    /\ everNotifiable = {}
    /\ raised = {}
    /\ fetches = <<>>
    /\ run = 0
    /\ arg = <<>>
    /\ ret = <<>>
    /\ Unfollowed
    /\ NewsBotIdle

\* glofas main, lines 401-446: load both files, fetch, build alerts, diff,
\* where fetch_glofas_hotspots returns one of hotspotLists
GlofasStartOver(hotspotLists) ==
    /\ script = "glofas"
    /\ pc = "idle"
    /\ ~LoadRaises(snapshotFile)
    /\ ~LoadRaises(ledgerFile)
    /\ \E hotspots \in hotspotLists :
         LET previous == load_json(snapshotFile)
             prev == build_alert_dict(previous.alerts)
             built == [i \in 1..Len(hotspots) |-> build_alert_from_hotspot(hotspots[i])]
             curr == build_alert_dict(built)
         IN /\ \A i \in 1..Len(hotspots) : ~BuildRaises(hotspots[i])
            /\ prev_alerts_dict' = prev
            /\ tweeted_alerts' = load_tweeted_alerts(ledgerFile)
            /\ loaded_ledger' = load_tweeted_alerts(ledgerFile)
            /\ alerts' = built
            /\ changes' = compare_alerts(prev, curr)
            /\ everNotifiable' = everNotifiable \cup NotifiableKeys(prev) \cup NotifiableKeys(curr)
    /\ idx' = 0
    /\ tweets' = <<>>
    /\ skipped' = <<>>
    /\ raised' = {}
    /\ fetches' = <<>>
    /\ pc' = "notify"
    /\ UNCHANGED <<script, snapshotFile, ledgerFile, slots, valid_coords, run, arg, ret,
                   trail, clock, last_tweet_ts, sends, peer, overlapped, newsVars>>

\* the run on the hotspots of the monitored points
GlofasStart == GlofasStartOver(HotspotLists(Len(SITES)))

\* GlofasEntry recording Medium whatever the level of the alert
GlofasEntry_always_medium(alert) ==
    [risk_level |-> "Medium",
     latitude |-> alert.latitude,
     longitude |-> alert.longitude,
     raw_dynamic_score |-> alert.raw_dynamic_score]

\* the entry glofas main writes to the tweet log (lines 468-495)
GlofasEntry(alert) ==
    IF InList(alert.dynamic_level, TWEET_LEVELS)
    THEN [risk_level |-> alert.dynamic_level,
          latitude |-> alert.latitude,
          longitude |-> alert.longitude,
          raw_dynamic_score |-> alert.raw_dynamic_score]
    ELSE [risk_level |-> alert.dynamic_level,
          latitude |-> alert.latitude,
          longitude |-> alert.longitude,
          raw_dynamic_score |-> alert.raw_dynamic_score,
          resolved |-> TRUE]

\* the skip of glofas main without its test of the change type
GlofasSkips_any_kind(change_type, key, tweeted) ==
    key \notin DOMAIN tweeted

\* glofas main without the skip
GlofasSkips_never(change_type, key, tweeted) == FALSE

\* whether glofas main skips the change (lines 453-457)
GlofasSkips(change_type, key, tweeted) ==
    change_type = "Downgrade" /\ key \notin DOMAIN tweeted

\* one iteration of "for change_type, alert in changes" (lines 449-495)
GlofasNotify ==
    /\ script = "glofas"
    /\ pc = "notify"
    /\ idx < Len(changes)
    /\ LET change_type == changes[idx + 1][1]
           alert == changes[idx + 1][2]
           key == LedgerKey(alert)
       IN IF GlofasSkips(change_type, key, tweeted_alerts)
          THEN /\ skipped' = Append(skipped, changes[idx + 1])
               /\ UNCHANGED <<tweets, tweeted_alerts>>
          ELSE /\ tweets' = Append(tweets, changes[idx + 1])
               /\ tweeted_alerts' = SetEntry(tweeted_alerts, key, GlofasEntry(alert))
               /\ UNCHANGED skipped
    /\ idx' = idx + 1
    /\ UNCHANGED <<script, snapshotFile, ledgerFile, slots, pc, valid_coords,
                   prev_alerts_dict, alerts, changes, loaded_ledger, everNotifiable, raised, fetches,
                   run, arg, ret,
                   trail, clock, last_tweet_ts, sends, peer, overlapped, newsVars>>

\* save_tweeted_alerts writing back the ledger as it was loaded
GlofasSaveLedger_as_loaded ==
    /\ script = "glofas"
    /\ pc = "notify"
    /\ idx = Len(changes)
    /\ ledgerFile' = FileOf(LedgerWritten(loaded_ledger))
    /\ pc' = "rotate"
    /\ UNCHANGED <<script, snapshotFile, slots, valid_coords, prev_alerts_dict, alerts,
                   changes, idx, tweeted_alerts, loaded_ledger, tweets, skipped,
                   everNotifiable, raised, fetches, run, arg, ret,
                   trail, clock, last_tweet_ts, sends, peer, overlapped, newsVars>>

\* save_tweeted_alerts(tweeted_alerts) (line 497)
GlofasSaveLedger ==
    /\ script = "glofas"
    /\ pc = "notify"
    /\ idx = Len(changes)
    /\ ledgerFile' = FileOf(LedgerWritten(tweeted_alerts))
    /\ pc' = "rotate"
    /\ UNCHANGED <<script, snapshotFile, slots, valid_coords, prev_alerts_dict, alerts,
                   changes, idx, tweeted_alerts, loaded_ledger, tweets, skipped,
                   everNotifiable, raised, fetches, run, arg, ret,
                   trail, clock, last_tweet_ts, sends, peer, overlapped, newsVars>>

\* which of the base path and the numbered snapshots exist
SnapshotFiles ==
    [i \in 0..COMPARISON_HISTORY |->
        [exists |-> IF i = 0 THEN snapshotFile.exists ELSE slots[i],
         parses |-> IF i = 0 THEN snapshotFile.parses ELSE slots[i],
         content |-> <<>>]]

\* rotate_comparison_snapshots(GLOFAS_COMPARISON_PATH) (line 500)
GlofasRotate ==
    /\ script = "glofas"
    /\ pc = "rotate"
    /\ LET rotated == rotate_comparison_snapshots(SnapshotFiles, COMPARISON_HISTORY)
       IN /\ slots' = [i \in 1..COMPARISON_HISTORY |-> rotated[i].exists]
          /\ snapshotFile' = IF rotated[0].exists THEN snapshotFile ELSE NoFile
    /\ pc' = "write"
    /\ UNCHANGED <<script, ledgerFile, valid_coords, prev_alerts_dict, alerts, changes,
                   idx, tweeted_alerts, loaded_ledger, tweets, skipped, everNotifiable, raised, fetches,
                   run, arg, ret,
                   trail, clock, last_tweet_ts, sends, peer, overlapped, newsVars>>

\* the write of the snapshot dumping, for a site whose Downgrade was skipped,
\* the record of the previous snapshot
GlofasWriteSnapshot_previous ==
    /\ script = "glofas"
    /\ pc = "write"
    /\ snapshotFile' = FileOf(SnapshotWritten(
                          Result([i \in 1..Len(alerts) |->
                              IF \E t \in 1..Len(skipped) : skipped[t][2] = alerts[i]
                              THEN DictGet(prev_alerts_dict, AlertKey(alerts[i]))
                              ELSE alerts[i]])))
    /\ pc' = "done"
    /\ UNCHANGED <<script, ledgerFile, slots, valid_coords, prev_alerts_dict, alerts,
                   changes, idx, tweeted_alerts, loaded_ledger, tweets, skipped,
                   everNotifiable, raised, fetches, run, arg, ret,
                   trail, clock, last_tweet_ts, sends, peer, overlapped, newsVars>>

\* json.dump(result, f) to the base path (lines 502-503)
GlofasWriteSnapshot ==
    /\ script = "glofas"
    /\ pc = "write"
    /\ snapshotFile' = FileOf(SnapshotWritten(Result(alerts)))
    /\ pc' = "done"
    /\ UNCHANGED <<script, ledgerFile, slots, valid_coords, prev_alerts_dict, alerts,
                   changes, idx, tweeted_alerts, loaded_ledger, tweets, skipped,
                   everNotifiable, raised, fetches, run, arg, ret,
                   trail, clock, last_tweet_ts, sends, peer, overlapped, newsVars>>

\* live main, lines 309-387: load both files, read the CSV, clean the ledger,
\* evaluate the high-risk rows, diff; the CSV is one of tables and what the
\* requests meet one of choices
LiveStartOver(tables, choices) ==
    /\ script = "live"
    /\ pc = "idle"
    /\ ~LoadRaises(snapshotFile)
    /\ ~LoadRaises(ledgerFile)
    /\ \E df \in tables, weather \in choices :
         LET previous == load_json(snapshotFile)
             prev == build_alert_dict(previous.alerts)
             valid == ValidCoords(df)
             evaluated == EvaluateRows(df, weather)
             curr == build_alert_dict(evaluated)
         IN /\ ~LoopUnpackRaises(df, weather)
            /\ prev_alerts_dict' = prev
            /\ valid_coords' = valid
            /\ loaded_ledger' = load_tweeted_alerts(ledgerFile)
            /\ tweeted_alerts' = cleanup_tweeted_alerts(load_tweeted_alerts(ledgerFile), valid)
            /\ alerts' = evaluated
            /\ fetches' = FetchCalls(df, weather)
            /\ changes' = live_compare_alerts(prev, curr)
            /\ everNotifiable' = everNotifiable \cup NotifiableKeys(prev) \cup NotifiableKeys(curr)
    /\ idx' = 0
    /\ tweets' = <<>>
    /\ skipped' = <<>>
    /\ raised' = {}
    /\ pc' = "notify"
    /\ UNCHANGED <<script, snapshotFile, ledgerFile, slots, run, arg, ret,
                   trail, clock, last_tweet_ts, sends, peer, overlapped, newsVars>>

LiveStart == LiveStartOver(CsvTables(Len(SITES)), WeatherChoices)

\* the entry live main writes to the tweet log (lines 401-411)
LiveEntry(alert) ==
    [risk_level |-> alert.dynamic_level,
     latitude |-> alert.latitude,
     longitude |-> alert.longitude,
     raw_dynamic_score |-> alert.raw_dynamic_score]

\* live main has no skip in its loop (lines 390-411)
LiveSkips(change_type, key, tweeted) == FALSE

\* one iteration of "for change_type, alert in changes" (lines 390-411)
LiveNotify ==
    /\ script = "live"
    /\ pc = "notify"
    /\ idx < Len(changes)
    /\ LET change_type == changes[idx + 1][1]
           alert == changes[idx + 1][2]
           key == LedgerKey(alert)
       IN IF LiveSkips(change_type, key, tweeted_alerts)
          THEN /\ skipped' = Append(skipped, changes[idx + 1])
               /\ UNCHANGED <<tweets, tweeted_alerts>>
          ELSE /\ tweets' = Append(tweets, changes[idx + 1])
               /\ tweeted_alerts' = SetEntry(tweeted_alerts, key, LiveEntry(alert))
               /\ UNCHANGED skipped
    /\ idx' = idx + 1
    /\ UNCHANGED <<script, snapshotFile, ledgerFile, slots, pc, valid_coords,
                   prev_alerts_dict, alerts, changes, loaded_ledger, everNotifiable, raised, fetches,
                   run, arg, ret,
                   trail, clock, last_tweet_ts, sends, peer, overlapped, newsVars>>

\* save_tweeted_alerts(tweeted_alerts) (line 413)
LiveSaveLedger ==
    /\ script = "live"
    /\ pc = "notify"
    /\ idx = Len(changes)
    /\ ledgerFile' = FileOf(LedgerWritten(tweeted_alerts))
    /\ pc' = "write"
    /\ UNCHANGED <<script, snapshotFile, slots, valid_coords, prev_alerts_dict, alerts,
                   changes, idx, tweeted_alerts, loaded_ledger, tweets, skipped,
                   everNotifiable, raised, fetches, run, arg, ret,
                   trail, clock, last_tweet_ts, sends, peer, overlapped, newsVars>>

\* the snapshot write carrying over the previous records of the sites this
\* run did not evaluate
LiveWriteSnapshot_keeps_previous ==
    /\ script = "live"
    /\ pc = "write"
    /\ LET curr == build_alert_dict(alerts)
           gone == SelectSeq(prev_alerts_dict, LAMBDA e : ~DictHas(curr, e.key))
           kept == [i \in 1..Len(gone) |-> gone[i].val]
       IN snapshotFile' = FileOf(SnapshotWritten(Result(alerts \o kept)))
    /\ pc' = "done"
    /\ UNCHANGED <<script, ledgerFile, slots, valid_coords, prev_alerts_dict, alerts,
                   changes, idx, tweeted_alerts, loaded_ledger, tweets, skipped,
                   everNotifiable, raised, fetches, run, arg, ret,
                   trail, clock, last_tweet_ts, sends, peer, overlapped, newsVars>>

\* json.dump(result, f) to COMPARISON_PATH (lines 416-417)
LiveWriteSnapshot ==
    /\ script = "live"
    /\ pc = "write"
    /\ snapshotFile' = FileOf(SnapshotWritten(Result(alerts)))
    /\ pc' = "done"
    /\ UNCHANGED <<script, ledgerFile, slots, valid_coords, prev_alerts_dict, alerts,
                   changes, idx, tweeted_alerts, loaded_ledger, tweets, skipped,
                   everNotifiable, raised, fetches, run, arg, ret,
                   trail, clock, last_tweet_ts, sends, peer, overlapped, newsVars>>

\* the positions at which the process ends: main returned, or an exception
\* left it from a load, from the ledger save or from the snapshot write
Ended == {"done", "load_raised", "save_raised", "write_raised", "unpack_raised",
          "build_raised"}

\* the frame of main is left: its locals are gone
FrameGone ==
    /\ valid_coords' = {}
    /\ prev_alerts_dict' = <<>>
    /\ alerts' = <<>>
    /\ changes' = <<>>
    /\ idx' = 0
    /\ tweeted_alerts' = <<>>
    /\ loaded_ledger' = <<>>
    /\ tweets' = <<>>
    /\ skipped' = <<>>
    /\ raised' = {}
    /\ fetches' = <<>>

\* the process ends
Exit ==
    /\ pc \in Ended
    /\ pc' = "idle"
    /\ FrameGone
    /\ UNCHANGED <<script, snapshotFile, ledgerFile, slots, everNotifiable, run, arg, ret,
                   trail, clock, last_tweet_ts, sends, peer, overlapped, newsVars>>

\* between two runs the tweet log goes missing (the case
\* load_tweeted_alerts answers with {})
LedgerFileLost ==
    /\ pc = "idle"
    /\ ledgerFile.exists
    /\ ledgerFile' = NoFile
    /\ UNCHANGED <<script, snapshotFile, slots, pc, valid_coords, prev_alerts_dict,
                   alerts, changes, idx, tweeted_alerts, loaded_ledger, tweets, skipped,
                   everNotifiable, raised, fetches, run, arg, ret,
                   trail, clock, last_tweet_ts, sends, peer, overlapped, newsVars>>

Next ==
    \/ GlofasStart
    \/ GlofasNotify
    \/ GlofasSaveLedger
    \/ GlofasRotate
    \/ GlofasWriteSnapshot
    \/ LiveStart
    \/ LiveNotify
    \/ LiveSaveLedger
    \/ LiveWriteSnapshot
    \/ Exit
    \/ LedgerFileLost

Spec == Init /\ [][Next]_vars

-----------------------------------------------------------------------------
(* The same runs with the failures the code meets: a file that does not
   parse, a post that raises, a write that raises *)

\* glofas main, lines 401-403: json.load raises in load_json or in
\* load_tweeted_alerts and nothing catches it
GlofasLoadRaises ==
    /\ script = "glofas"
    /\ pc = "idle"
    /\ LoadRaises(snapshotFile) \/ LoadRaises(ledgerFile)
    /\ pc' = "load_raised"
    /\ UNCHANGED <<script, snapshotFile, ledgerFile, slots, valid_coords,
                   prev_alerts_dict, alerts, changes, idx, tweeted_alerts,
                   loaded_ledger, tweets, skipped, everNotifiable, raised, fetches,
                   run, arg, ret,
                   trail, clock, last_tweet_ts, sends, peer, overlapped, newsVars>>

\* live main, lines 309-311: the same
LiveLoadRaises ==
    /\ script = "live"
    /\ pc = "idle"
    /\ LoadRaises(snapshotFile) \/ LoadRaises(ledgerFile)
    /\ pc' = "load_raised"
    /\ UNCHANGED <<script, snapshotFile, ledgerFile, slots, valid_coords,
                   prev_alerts_dict, alerts, changes, idx, tweeted_alerts,
                   loaded_ledger, tweets, skipped, everNotifiable, raised, fetches,
                   run, arg, ret,
                   trail, clock, last_tweet_ts, sends, peer, overlapped, newsVars>>

\* the iteration ended by the exception, before the entry is written
GlofasNotifyRaised_no_entry ==
    /\ script = "glofas"
    /\ pc = "notify"
    /\ idx < Len(changes)
    /\ ~GlofasSkips(changes[idx + 1][1], LedgerKey(changes[idx + 1][2]), tweeted_alerts)
    /\ tweets' = Append(tweets, changes[idx + 1])
    /\ raised' = raised \cup {idx + 1}
    /\ idx' = idx + 1
    /\ UNCHANGED <<script, snapshotFile, ledgerFile, slots, pc, valid_coords,
                   prev_alerts_dict, alerts, changes, loaded_ledger, skipped,
                   everNotifiable, fetches, tweeted_alerts, run, arg, ret,
                   trail, clock, last_tweet_ts, sends, peer, overlapped, newsVars>>

\* the hotspot lists fetch_glofas_hotspots may return over the first n points
\* when a hotspot may carry "return_period": None
RECURSIVE NoneHotspotLists(_)
NoneHotspotLists(n) ==
    IF n = 0 THEN {<<>>}
    ELSE LET shorter == NoneHotspotLists(n - 1) IN
         shorter \cup
         { Append(l, h) : l \in shorter, h \in {HotspotWithNone(n), Hotspot(n, <<5>>)} }

\* glofas main, lines 401-417: the run gets as far as a hotspot with None
\* under "return_period"; build_alert_from_hotspot raises TypeError at its
\* score and nothing catches it
GlofasBuildRaises ==
    /\ script = "glofas"
    /\ pc = "idle"
    /\ ~LoadRaises(snapshotFile)
    /\ ~LoadRaises(ledgerFile)
    /\ \E hotspots \in NoneHotspotLists(Len(SITES)) :
         \E i \in 1..Len(hotspots) : BuildRaises(hotspots[i])
    /\ pc' = "build_raised"
    /\ UNCHANGED <<script, snapshotFile, ledgerFile, slots, valid_coords,
                   prev_alerts_dict, alerts, changes, idx, tweeted_alerts,
                   loaded_ledger, tweets, skipped, everNotifiable, raised, fetches,
                   run, arg, ret,
                   trail, clock, last_tweet_ts, sends, peer, overlapped, newsVars>>

\* what one attempt of a fetch for point n may meet when Open-Meteo may also
\* answer 200 with a body that carries no hourly time series
MalformedResponses(n) ==
    { [raises |-> "", json |-> NO_TIME_SERIES] }
        \cup { r \in Responses(n) :
                 \/ r.raises = "ReadTimeout"
                 \/ r.raises = "" /\ r.json[1].rain = 20 }

\* for each point, what each attempt of a fetch would meet, such bodies included
MalformedChoices ==
    { w \in [1..Len(SITES) ->
                UNION { [1..MAX_RETRIES -> MalformedResponses(n)] : n \in 1..Len(SITES) }] :
        \A n \in 1..Len(SITES) : \A a \in 1..MAX_RETRIES : w[n][a] \in MalformedResponses(n) }

\* live main, lines 309-331: the run gets as far as a high-risk row whose
\* payload has no time series; compute_indicators returns five values, the
\* unpacking into three names raises ValueError and nothing catches it
LiveUnpackRaises ==
    /\ script = "live"
    /\ pc = "idle"
    /\ ~LoadRaises(snapshotFile)
    /\ ~LoadRaises(ledgerFile)
    /\ \E df \in CsvTables(Len(SITES)), weather \in MalformedChoices :
         /\ LoopUnpackRaises(df, weather)
         /\ LET first == CHOOSE i \in 1..Len(df) :
                            /\ LoopUnpackRaises(SubSeq(df, 1, i), weather)
                            /\ ~LoopUnpackRaises(SubSeq(df, 1, i - 1), weather)
            IN fetches' = FetchCalls(SubSeq(df, 1, first), weather)
    /\ pc' = "unpack_raised"
    /\ UNCHANGED <<script, snapshotFile, ledgerFile, slots, valid_coords,
                   prev_alerts_dict, alerts, changes, idx, tweeted_alerts,
                   loaded_ledger, tweets, skipped, everNotifiable, raised,
                   run, arg, ret,
                   trail, clock, last_tweet_ts, sends, peer, overlapped, newsVars>>

\* one iteration of the glofas loop in which the client raises inside
\* tweet_alert (lines 202-212): the except clause prints and tweet_alert
\* returns, main goes on to write the entry (lines 464-495)
GlofasNotifyRaised ==
    /\ script = "glofas"
    /\ pc = "notify"
    /\ idx < Len(changes)
    /\ LET change_type == changes[idx + 1][1]
           alert == changes[idx + 1][2]
           key == LedgerKey(alert)
       IN /\ ~GlofasSkips(change_type, key, tweeted_alerts)
          /\ tweets' = Append(tweets, changes[idx + 1])
          /\ raised' = raised \cup {idx + 1}
          /\ tweeted_alerts' = SetEntry(tweeted_alerts, key, GlofasEntry(alert))
    /\ idx' = idx + 1
    /\ UNCHANGED <<script, snapshotFile, ledgerFile, slots, pc, valid_coords,
                   prev_alerts_dict, alerts, changes, loaded_ledger, skipped,
                   everNotifiable, fetches, run, arg, ret,
                   trail, clock, last_tweet_ts, sends, peer, overlapped, newsVars>>

\* the same iteration of the live loop (tweet_alert lines 290-300, main
\* lines 399-411)
LiveNotifyRaised ==
    /\ script = "live"
    /\ pc = "notify"
    /\ idx < Len(changes)
    /\ LET change_type == changes[idx + 1][1]
           alert == changes[idx + 1][2]
           key == LedgerKey(alert)
       IN /\ ~LiveSkips(change_type, key, tweeted_alerts)
          /\ tweets' = Append(tweets, changes[idx + 1])
          /\ raised' = raised \cup {idx + 1}
          /\ tweeted_alerts' = SetEntry(tweeted_alerts, key, LiveEntry(alert))
    /\ idx' = idx + 1
    /\ UNCHANGED <<script, snapshotFile, ledgerFile, slots, pc, valid_coords,
                   prev_alerts_dict, alerts, changes, loaded_ledger, skipped,
                   everNotifiable, fetches, run, arg, ret,
                   trail, clock, last_tweet_ts, sends, peer, overlapped, newsVars>>

\* save_tweeted_alerts raises (glofas line 497): open raised and the file is
\* as it was, or the dump broke off and the file is cut short; the exception
\* leaves main
GlofasSaveLedgerRaises ==
    /\ script = "glofas"
    /\ pc = "notify"
    /\ idx = Len(changes)
    /\ ledgerFile' \in {ledgerFile, Truncated}
    /\ pc' = "save_raised"
    /\ FrameGone
    /\ UNCHANGED <<script, snapshotFile, slots, everNotifiable, run, arg, ret,
                   trail, clock, last_tweet_ts, sends, peer, overlapped, newsVars>>

\* save_tweeted_alerts raises (live line 413)
LiveSaveLedgerRaises ==
    /\ script = "live"
    /\ pc = "notify"
    /\ idx = Len(changes)
    /\ ledgerFile' \in {ledgerFile, Truncated}
    /\ pc' = "save_raised"
    /\ FrameGone
    /\ UNCHANGED <<script, snapshotFile, slots, everNotifiable, run, arg, ret,
                   trail, clock, last_tweet_ts, sends, peer, overlapped, newsVars>>

\* the failed write caught and passed over: main goes on to its last print
GlofasWriteSnapshotRaises_swallowed ==
    /\ script = "glofas"
    /\ pc = "write"
    /\ snapshotFile' \in {snapshotFile, Truncated}
    /\ pc' = "done"
    /\ UNCHANGED <<script, ledgerFile, slots, valid_coords, prev_alerts_dict, alerts,
                   changes, idx, tweeted_alerts, loaded_ledger, tweets, skipped,
                   everNotifiable, raised, fetches, run, arg, ret,
                   trail, clock, last_tweet_ts, sends, peer, overlapped, newsVars>>

\* the write of the snapshot raises (glofas lines 502-503): nothing around it
\* catches, the print of lines 505-508 is not reached
GlofasWriteSnapshotRaises ==
    /\ script = "glofas"
    /\ pc = "write"
    /\ snapshotFile' \in {snapshotFile, Truncated}
    /\ pc' = "write_raised"
    /\ FrameGone
    /\ UNCHANGED <<script, ledgerFile, slots, everNotifiable, run, arg, ret,
                   trail, clock, last_tweet_ts, sends, peer, overlapped, newsVars>>

\* the write of the snapshot raises (live lines 416-417)
LiveWriteSnapshotRaises ==
    /\ script = "live"
    /\ pc = "write"
    /\ snapshotFile' \in {snapshotFile, Truncated}
    /\ pc' = "write_raised"
    /\ FrameGone
    /\ UNCHANGED <<script, ledgerFile, slots, everNotifiable, run, arg, ret,
                   trail, clock, last_tweet_ts, sends, peer, overlapped, newsVars>>

NextFaults ==
    \/ Next
    \/ GlofasLoadRaises
    \/ LiveLoadRaises
    \/ GlofasNotifyRaised
    \/ LiveNotifyRaised
    \/ GlofasSaveLedgerRaises
    \/ LiveSaveLedgerRaises
    \/ GlofasWriteSnapshotRaises
    \/ LiveWriteSnapshotRaises
    \/ LiveUnpackRaises
    \/ GlofasBuildRaises

SpecFaults == Init /\ [][NextFaults]_vars

-----------------------------------------------------------------------------
(* compare_alerts applied to drawn inputs: any previous snapshot over the
   points, any current alerts list of at most MaxAlerts records *)

MaxAlerts == 2

DiffRecords ==
    { [latitude |-> SITES[n].latitude,
       longitude |-> SITES[n].longitude,
       raw_dynamic_score |-> 0,
       dynamic_level |-> LEVELS[l]] : n \in 1..Len(SITES), l \in 1..Len(LEVELS) }

DiffCurrLists == UNION { [1..n -> DiffRecords] : n \in 0..MaxAlerts }

RECURSIVE DiffPrevLists(_)
DiffPrevLists(n) ==
    IF n = 0 THEN {<<>>}
    ELSE LET shorter == DiffPrevLists(n - 1) IN
         shorter \cup
         { Append(l, r) : l \in shorter,
                          r \in { x \in DiffRecords : x.latitude = SITES[n].latitude } }

InitDiff ==
    /\ script \in {"glofas", "live"}
    /\ snapshotFile \in { FileOf([alerts |-> l]) : l \in DiffPrevLists(Len(SITES)) }
    /\ alerts \in DiffCurrLists
    /\ ledgerFile = NoFile
    /\ slots = NoSlots
    /\ pc = "diff"
    /\ valid_coords = {}
    /\ prev_alerts_dict = <<>>
    /\ changes = <<>>
    /\ idx = 0
    /\ tweeted_alerts = <<>>
    /\ loaded_ledger = <<>>
    /\ tweets = <<>>
    /\ skipped = <<>>
    /\ everNotifiable = {}
    /\ raised = {}
    /\ fetches = <<>>
    /\ run = 0
    /\ arg = <<>>
    /\ ret = <<>>
    /\ Unfollowed
    /\ NewsBotIdle

\* glofas main, lines 401-402 and 429-430
GlofasDiff ==
    /\ script = "glofas"
    /\ pc = "diff"
    /\ prev_alerts_dict' = build_alert_dict(load_json(snapshotFile).alerts)
    /\ changes' = compare_alerts(build_alert_dict(load_json(snapshotFile).alerts),
                                 build_alert_dict(alerts))
    /\ pc' = "diffed"
    /\ UNCHANGED <<script, snapshotFile, ledgerFile, slots, valid_coords, alerts, idx,
                   tweeted_alerts, loaded_ledger, tweets, skipped, everNotifiable, raised, fetches,
                   run, arg, ret,
                   trail, clock, last_tweet_ts, sends, peer, overlapped, newsVars>>

\* live main, lines 309-310 and 368-369
LiveDiff ==
    /\ script = "live"
    /\ pc = "diff"
    /\ prev_alerts_dict' = build_alert_dict(load_json(snapshotFile).alerts)
    /\ changes' = live_compare_alerts(build_alert_dict(load_json(snapshotFile).alerts),
                                      build_alert_dict(alerts))
    /\ pc' = "diffed"
    /\ UNCHANGED <<script, snapshotFile, ledgerFile, slots, valid_coords, alerts, idx,
                   tweeted_alerts, loaded_ledger, tweets, skipped, everNotifiable, raised, fetches,
                   run, arg, ret,
                   trail, clock, last_tweet_ts, sends, peer, overlapped, newsVars>>

NextDiff == GlofasDiff \/ LiveDiff

SpecDiff == InitDiff /\ [][NextDiff]_vars

-----------------------------------------------------------------------------
(* rotate_comparison_snapshots applied to drawn inputs: any max_history of
   1..MaxHistory and any set of files among the base path, the numbered paths
   1..max_history and the path max_history + 1, each holding its own text *)

MaxHistory == 5

\* the file at path i (0 is the base path) before the call
OldFile(i) == FileOf(<<i>>)

RotateArgs ==
    UNION { { [max_history |-> n,
               fs |-> [i \in 0..(n + 1) |-> IF there[i] THEN OldFile(i) ELSE NoFile]] :
                there \in [0..(n + 1) -> BOOLEAN] } :
            n \in 1..MaxHistory }

InitRotate ==
    /\ arg \in RotateArgs
    /\ ret = <<>>
    /\ Unfollowed
    /\ NewsBotIdle
    /\ pc = "call"
    /\ script = "glofas"
    /\ snapshotFile = NoFile
    /\ ledgerFile = NoFile
    /\ slots = NoSlots
    /\ valid_coords = {}
    /\ prev_alerts_dict = <<>>
    /\ alerts = <<>>
    /\ changes = <<>>
    /\ idx = 0
    /\ tweeted_alerts = <<>>
    /\ loaded_ledger = <<>>
    /\ tweets = <<>>
    /\ skipped = <<>>
    /\ everNotifiable = {}
    /\ raised = {}
    /\ fetches = <<>>
    /\ run = 0

\* rotate_comparison_snapshots(base_path, max_history)
Rotate ==
    /\ pc = "call"
    /\ ret' = rotate_comparison_snapshots(arg.fs, arg.max_history)
    /\ pc' = "returned"
    /\ UNCHANGED <<script, snapshotFile, ledgerFile, slots, valid_coords,
                   prev_alerts_dict, alerts, changes, idx, tweeted_alerts,
                   loaded_ledger, tweets, skipped, everNotifiable, raised, fetches,
                   run, arg,
                   trail, clock, last_tweet_ts, sends, peer, overlapped, newsVars>>

NextRotate == Rotate

SpecRotate == InitRotate /\ [][NextRotate]_vars

-----------------------------------------------------------------------------
(* The snapshot files over a bounded number of glofas runs, each snapshot
   holding the number of the run that wrote it with its alerts; the numbered
   paths go one beyond COMPARISON_HISTORY *)

MaxRuns == 8

\* the alerts lists a counted run may build
RunAlerts ==
    { <<>>,
      << build_alert_from_hotspot([latitude |-> SITES[1].latitude,
                                   longitude |-> SITES[1].longitude,
                                   return_period |-> <<5>>]) >> }

InitRuns ==
    /\ script = "glofas"
    /\ snapshotFile = NoFile
    /\ slots = [i \in 1..(COMPARISON_HISTORY + 1) |-> NoFile]
    /\ pc = "idle"
    /\ run = 0
    /\ alerts = <<>>
    /\ ledgerFile = NoFile
    /\ valid_coords = {}
    /\ prev_alerts_dict = <<>>
    /\ changes = <<>>
    /\ idx = 0
    /\ tweeted_alerts = <<>>
    /\ loaded_ledger = <<>>
    /\ tweets = <<>>
    /\ skipped = <<>>
    /\ everNotifiable = {}
    /\ raised = {}
    /\ fetches = <<>>
    /\ arg = <<>>
    /\ ret = <<>>
    /\ Unfollowed
    /\ NewsBotIdle

\* glofas main up to the ledger save (lines 398-497), as far as the snapshot
\* files go: it builds alerts and leaves the files alone
RunStart ==
    /\ pc = "idle"
    /\ run < MaxRuns
    /\ run' = run + 1
    /\ alerts' \in RunAlerts
    /\ pc' = "rotate"
    /\ UNCHANGED <<script, snapshotFile, ledgerFile, slots, valid_coords,
                   prev_alerts_dict, changes, idx, tweeted_alerts, loaded_ledger,
                   tweets, skipped, everNotifiable, raised, fetches, arg, ret,
                   trail, clock, last_tweet_ts, sends, peer, overlapped, newsVars>>

\* rotate_comparison_snapshots(GLOFAS_COMPARISON_PATH) (line 500)
RunRotate ==
    /\ pc = "rotate"
    /\ LET fs == [i \in 0..(COMPARISON_HISTORY + 1) |->
                    IF i = 0 THEN snapshotFile ELSE slots[i]]
           rotated == rotate_comparison_snapshots(fs, COMPARISON_HISTORY)
       IN /\ snapshotFile' = rotated[0]
          /\ slots' = [i \in 1..(COMPARISON_HISTORY + 1) |-> rotated[i]]
    /\ pc' = "write"
    /\ UNCHANGED <<script, ledgerFile, valid_coords, prev_alerts_dict, alerts,
                   changes, idx, tweeted_alerts, loaded_ledger, tweets, skipped,
                   everNotifiable, raised, fetches, run, arg, ret,
                   trail, clock, last_tweet_ts, sends, peer, overlapped, newsVars>>

\* json.dump(result, f) to the base path (lines 502-503)
RunWriteSnapshot ==
    /\ pc = "write"
    /\ snapshotFile' = FileOf([run |-> run, alerts |-> alerts])
    /\ pc' = "done"
    /\ UNCHANGED <<script, ledgerFile, slots, valid_coords, prev_alerts_dict,
                   alerts, changes, idx, tweeted_alerts, loaded_ledger, tweets,
                   skipped, everNotifiable, raised, fetches, run, arg, ret,
                   trail, clock, last_tweet_ts, sends, peer, overlapped, newsVars>>

\* main returns and the process ends
RunExit ==
    /\ pc = "done"
    /\ pc' = "idle"
    /\ alerts' = <<>>
    /\ UNCHANGED <<script, snapshotFile, ledgerFile, slots, valid_coords,
                   prev_alerts_dict, changes, idx, tweeted_alerts, loaded_ledger,
                   tweets, skipped, everNotifiable, raised, fetches, run, arg, ret,
                   trail, clock, last_tweet_ts, sends, peer, overlapped, newsVars>>

NextRuns ==
    \/ RunStart
    \/ RunRotate
    \/ RunWriteSnapshot
    \/ RunExit

SpecRuns == InitRuns /\ [][NextRuns]_vars

-----------------------------------------------------------------------------
(* The two classifiers applied to drawn inputs: calculate_dynamic_risk_raw
   to base risks, rain sums, humidities and soil fractions below, at and
   above their clamps, with products below, at and above each breakpoint;
   return_period_to_level to None and to return periods around its steps *)

RiskInputs ==
    { [base_risk |-> b, rain |-> r, rh |-> h, soil |-> m] :
        b \in {-10, 0, 40, 50, 90, 150, 350},
        r \in {-5, 0, 5, 10, 30, 70},
        h \in {0, 5},
        m \in {-1, 0, 1, 17, 18} }

ReturnPeriods == { <<>> } \cup { <<n>> : n \in -1..21 }

InitClassify ==
    /\ \/ arg \in { [fn |-> "calculate_dynamic_risk_raw", x |-> x] : x \in RiskInputs }
       \/ arg \in { [fn |-> "return_period_to_level", x |-> rp] : rp \in ReturnPeriods }
    /\ ret = <<>>
    /\ Unfollowed
    /\ NewsBotIdle
    /\ pc = "call"
    /\ script = (IF arg.fn = "return_period_to_level" THEN "glofas" ELSE "live")
    /\ snapshotFile = NoFile
    /\ ledgerFile = NoFile
    /\ slots = NoSlots
    /\ valid_coords = {}
    /\ prev_alerts_dict = <<>>
    /\ alerts = <<>>
    /\ changes = <<>>
    /\ idx = 0
    /\ tweeted_alerts = <<>>
    /\ loaded_ledger = <<>>
    /\ tweets = <<>>
    /\ skipped = <<>>
    /\ everNotifiable = {}
    /\ raised = {}
    /\ fetches = <<>>
    /\ run = 0

\* calculate_dynamic_risk_raw(base_risk, rain_sum, rh_avg, soil_avg)
ClassifyRisk ==
    /\ pc = "call"
    /\ arg.fn = "calculate_dynamic_risk_raw"
    /\ ret' = calculate_dynamic_risk_raw(arg.x.base_risk, arg.x.rain, arg.x.rh, arg.x.soil)
    /\ pc' = "returned"
    /\ UNCHANGED <<script, snapshotFile, ledgerFile, slots, valid_coords,
                   prev_alerts_dict, alerts, changes, idx, tweeted_alerts,
                   loaded_ledger, tweets, skipped, everNotifiable, raised, fetches,
                   run, arg,
                   trail, clock, last_tweet_ts, sends, peer, overlapped, newsVars>>

\* return_period_to_level(h.get("return_period"))
ClassifyReturnPeriod ==
    /\ pc = "call"
    /\ arg.fn = "return_period_to_level"
    /\ ret' = [level |-> return_period_to_level(arg.x)]
    /\ pc' = "returned"
    /\ UNCHANGED <<script, snapshotFile, ledgerFile, slots, valid_coords,
                   prev_alerts_dict, alerts, changes, idx, tweeted_alerts,
                   loaded_ledger, tweets, skipped, everNotifiable, raised, fetches,
                   run, arg,
                   trail, clock, last_tweet_ts, sends, peer, overlapped, newsVars>>

NextClassify == ClassifyRisk \/ ClassifyReturnPeriod

SpecClassify == InitClassify /\ [][NextClassify]_vars

-----------------------------------------------------------------------------
(* build_alert_from_hotspot applied to drawn hotspots: of each point, without
   the key "return_period", with None under it, and with return periods
   around the steps of return_period_to_level and beyond them *)

HotspotInputs ==
    UNION { { HotspotWithNone(n) }
                \cup { Hotspot(n, rp) : rp \in ReturnPeriods \cup { <<50>>, <<100>> } } :
            n \in 1..Len(SITES) }

InitBuild ==
    /\ arg \in { [fn |-> "build_alert_from_hotspot", x |-> h] : h \in HotspotInputs }
    /\ ret = <<>>
    /\ Unfollowed
    /\ NewsBotIdle
    /\ pc = "call"
    /\ script = "glofas"
    /\ snapshotFile = NoFile
    /\ ledgerFile = NoFile
    /\ slots = NoSlots
    /\ valid_coords = {}
    /\ prev_alerts_dict = <<>>
    /\ alerts = <<>>
    /\ changes = <<>>
    /\ idx = 0
    /\ tweeted_alerts = <<>>
    /\ loaded_ledger = <<>>
    /\ tweets = <<>>
    /\ skipped = <<>>
    /\ everNotifiable = {}
    /\ raised = {}
    /\ fetches = <<>>
    /\ run = 0

\* build_alert_from_hotspot(h, cities_df): the alert it returns, or the
\* exception it is left by
BuildAlert ==
    /\ pc = "call"
    /\ arg.fn = "build_alert_from_hotspot"
    /\ ret' = IF BuildRaises(arg.x) THEN [raises |-> "TypeError"]
              ELSE [alert |-> build_alert_from_hotspot(arg.x)]
    /\ pc' = "returned"
    /\ UNCHANGED <<script, snapshotFile, ledgerFile, slots, valid_coords,
                   prev_alerts_dict, alerts, changes, idx, tweeted_alerts,
                   loaded_ledger, tweets, skipped, everNotifiable, raised, fetches,
                   run, arg,
                   trail, clock, last_tweet_ts, sends, peer, overlapped, newsVars>>

NextBuild == BuildAlert

SpecBuild == InitBuild /\ [][NextBuild]_vars

-----------------------------------------------------------------------------
(* Runs one after the other, each complete, with the last of them kept: no
   file is touched between two runs *)

MaxTrail == 2

\* what a completed run leaves to remember: the level it gave each site of
\* its alerts and the sites it called tweet_alert for
RunRecord ==
    LET curr == build_alert_dict(alerts) IN
    [levels |-> [k \in { curr[i].key : i \in 1..Len(curr) } |->
                    DictGet(curr, k).dynamic_level],
     notified |-> { AlertKey(tweets[t][2]) : t \in 1..Len(tweets) }]

\* the last n elements of a sequence
LastOf(seq, n) ==
    IF Len(seq) <= n THEN seq ELSE SubSeq(seq, Len(seq) - n + 1, Len(seq))

\* main returned and the process ends
SeqExit ==
    /\ pc = "done"
    /\ trail' = LastOf(Append(trail, RunRecord), MaxTrail)
    /\ pc' = "idle"
    /\ FrameGone
    /\ UNCHANGED <<script, snapshotFile, ledgerFile, slots, everNotifiable, run, arg, ret,
                   clock, last_tweet_ts, sends, peer, overlapped, newsVars>>

\* the glofas evaluator
InitSeq == Init /\ script = "glofas"

NextSeq ==
    \/ GlofasStart
    \/ GlofasNotify
    \/ GlofasSaveLedger
    \/ GlofasRotate
    \/ GlofasWriteSnapshot
    \/ SeqExit

SpecSeq == InitSeq /\ [][NextSeq]_vars

\* the live evaluator, on forecasts that make a point Low, Medium or High and on
\* requests that time out
InitSeqLive == Init /\ script = "live"

SeqWeatherChoices ==
    { w \in WeatherChoices :
        \A n \in 1..Len(SITES) : \A a \in 1..MAX_RETRIES :
            /\ w[n][a].raises \in {"", "ReadTimeout"}
            /\ w[n][a].raises = "" => w[n][a].json[1].rain \in {2, 10, 20} }

SeqLiveStart == LiveStartOver(CsvTables(Len(SITES)), SeqWeatherChoices)

NextSeqLive ==
    \/ SeqLiveStart
    \/ LiveNotify
    \/ LiveSaveLedger
    \/ LiveWriteSnapshot
    \/ SeqExit

SpecSeqLive == InitSeqLive /\ [][NextSeqLive]_vars

-----------------------------------------------------------------------------
(* The loop of main over changes with time followed, applied to drawn inputs:
   any list of at most MaxChanges changes over distinct points, a ledger that
   is empty or has an entry for each point, a clock that moves forward.  Time
   is in whole seconds. *)

-----------------------------------------------------------------------------
(* Runs of the glofas evaluator, each complete, on hotspots closer to each
   other than the rounding of the keys: no file is touched between two runs *)

\* three hotspots within 1e-4 degree of each other, on both sides of the
\* equator (1e-5 degree): round(latitude, 4) is 0.0 or -0.0 for each
NEAR_POINTS == << [latitude |-> 4, longitude |-> -370000],
                  [latitude |-> 3, longitude |-> -370000],
                  [latitude |-> -4, longitude |-> -370000] >>

\* the return periods each is reported with (Low 1, High 5, Extreme 20)
NEAR_RETURN_PERIODS == << {1, 5, 20}, {1, 20}, {1, 5} >>

\* the length of the list fetch_glofas_hotspots returns
MaxNear == 2

NearHotspots ==
    UNION { { [latitude |-> NEAR_POINTS[n].latitude,
               longitude |-> NEAR_POINTS[n].longitude,
               return_period |-> <<rp>>] : rp \in NEAR_RETURN_PERIODS[n] } :
              n \in 1..Len(NEAR_POINTS) }

NearHotspotLists == UNION { [1..len -> NearHotspots] : len \in 0..MaxNear }

NearStart == GlofasStartOver(NearHotspotLists)

InitNear == Init /\ script = "glofas"

NextNear ==
    \/ NearStart
    \/ GlofasNotify
    \/ GlofasSaveLedger
    \/ GlofasRotate
    \/ GlofasWriteSnapshot
    \/ Exit

SpecNear == InitNear /\ [][NextNear]_vars

-----------------------------------------------------------------------------
(* Complete runs of the glofas evaluator between which the tweet log may go
   missing, with the last run kept together with the sites whose Downgrade a
   run skipped and whose level has not changed since *)

\* what a completed run leaves to remember: the level it gave each site, the
\* sites it called tweet_alert for, and the sites whose Downgrade it skipped
\* or whose Downgrade was skipped before and that kept their level
QuietRecord ==
    LET curr == build_alert_dict(alerts)
        levels == [k \in { curr[i].key : i \in 1..Len(curr) } |->
                      DictGet(curr, k).dynamic_level]
        still == IF trail = <<>> THEN {}
                 ELSE { k \in trail[1].suppressed \cap DOMAIN levels :
                          levels[k] = trail[1].levels[k] }
    IN [levels |-> levels,
        notified |-> { AlertKey(tweets[t][2]) : t \in 1..Len(tweets) },
        suppressed |-> { AlertKey(skipped[t][2]) : t \in 1..Len(skipped) } \cup still]

\* main returned and the process ends
QuietExit ==
    /\ pc = "done"
    /\ trail' = << QuietRecord >>
    /\ pc' = "idle"
    /\ FrameGone
    /\ UNCHANGED <<script, snapshotFile, ledgerFile, slots, everNotifiable, run, arg, ret,
                   clock, last_tweet_ts, sends, peer, overlapped, newsVars>>

NextQuiet ==
    \/ GlofasStart
    \/ GlofasNotify
    \/ GlofasSaveLedger
    \/ GlofasRotate
    \/ GlofasWriteSnapshot
    \/ QuietExit
    \/ LedgerFileLost

SpecQuiet == InitSeq /\ [][NextQuiet]_vars

MIN_SECONDS_BETWEEN_TWEETS == 30

MaxChanges == 3

\* the n-th of the points the drawn changes are about
ThrottlePoint(n) ==
    [latitude |-> SITES[1].latitude + (n - 1) * 150000,
     longitude |-> SITES[1].longitude]

\* the record compare_alerts carries for a change of the kind at the point
ThrottleChange(kind, n) ==
    <<kind, [latitude |-> ThrottlePoint(n).latitude,
             longitude |-> ThrottlePoint(n).longitude,
             raw_dynamic_score |-> 0,
             dynamic_level |-> IF kind = "Downgrade" THEN "Low" ELSE "High"]>>

ThrottleChanges ==
    UNION { { [n \in 1..len |-> ThrottleChange(kinds[n], n)] :
                kinds \in [1..len -> {"New", "Upgrade", "Downgrade"}] } :
            len \in 0..MaxChanges }

\* a ledger with an entry at Medium for each point
ThrottleLedger ==
    [k \in { LedgerKey(ThrottlePoint(n)) : n \in 1..MaxChanges } |->
        LET n == CHOOSE m \in 1..MaxChanges : LedgerKey(ThrottlePoint(m)) = k
        IN [risk_level |-> "Medium",
            latitude |-> ThrottlePoint(n).latitude,
            longitude |-> ThrottlePoint(n).longitude,
            raw_dynamic_score |-> 0]]

\* seconds that pass between the end of one iteration and the reading of
\* time.time() in the next
Gaps == {0, 12, MIN_SECONDS_BETWEEN_TWEETS}

\* seconds time.sleep takes beyond what it was asked for
Overshoots == {0, 1}

\* seconds a call of tweet_alert takes
Durations == {3}

\* the argument of time.sleep, 0 when it is not called, with the elapsed
\* time as the argument
throttle_sleep_elapsed(now_ts, last) ==
    IF now_ts - last < MIN_SECONDS_BETWEEN_TWEETS THEN now_ts - last ELSE 0

\* the argument of time.sleep in the rate limit of the loop, 0 when it is not
\* called
throttle_sleep(now_ts, last) ==
    IF now_ts - last < MIN_SECONDS_BETWEEN_TWEETS
    THEN MIN_SECONDS_BETWEEN_TWEETS - (now_ts - last)
    ELSE 0

\* main at "last_tweet_ts = 0.0", before the loop
InitThrottle ==
    /\ script \in {"glofas", "live"}
    /\ changes \in ThrottleChanges
    /\ tweeted_alerts \in {<<>>, ThrottleLedger}
    /\ loaded_ledger = tweeted_alerts
    /\ clock \in {MIN_SECONDS_BETWEEN_TWEETS, 1000 * MIN_SECONDS_BETWEEN_TWEETS}
    /\ last_tweet_ts = 0
    /\ sends = <<>>
    /\ pc = "notify"
    /\ idx = 0
    /\ snapshotFile = NoFile
    /\ ledgerFile = NoFile
    /\ slots = NoSlots
    /\ valid_coords = {}
    /\ prev_alerts_dict = <<>>
    /\ alerts = <<>>
    /\ tweets = <<>>
    /\ skipped = <<>>
    /\ everNotifiable = {}
    /\ raised = {}
    /\ fetches = <<>>
    /\ run = 0
    /\ arg = <<>>
    /\ ret = <<>>
    /\ trail = <<>>
    /\ peer = NoPeer
    /\ overlapped = FALSE
    /\ NewsBotIdle

\* the rate limit and the send of one iteration (glofas lines 459-465, live
\* lines 393-399): what the clock, last_tweet_ts and the record of sends
\* become
TimedSend ==
    \E g \in Gaps, over \in Overshoots, d \in Durations :
        LET now_ts == clock + g
            slept == throttle_sleep(now_ts, last_tweet_ts)
            at == now_ts + slept + (IF slept > 0 THEN over ELSE 0)
            until == at + d
        IN /\ (slept = 0 => over = 0)
           /\ sends' = Append(sends, [change |-> changes[idx + 1],
                                      now_ts |-> now_ts,
                                      last |-> last_tweet_ts,
                                      slept |-> slept,
                                      at |-> at,
                                      until |-> until])
           /\ last_tweet_ts' = until
           /\ clock' = until

\* one iteration of "for change_type, alert in changes" (glofas lines 449-495)
GlofasNotifyTimed ==
    /\ script = "glofas"
    /\ pc = "notify"
    /\ idx < Len(changes)
    /\ LET change_type == changes[idx + 1][1]
           alert == changes[idx + 1][2]
           key == LedgerKey(alert)
       IN IF GlofasSkips(change_type, key, tweeted_alerts)
          THEN /\ skipped' = Append(skipped, changes[idx + 1])
               /\ UNCHANGED <<tweets, tweeted_alerts, clock, last_tweet_ts, sends>>
          ELSE /\ TimedSend
               /\ tweets' = Append(tweets, changes[idx + 1])
               /\ tweeted_alerts' = SetEntry(tweeted_alerts, key, GlofasEntry(alert))
               /\ UNCHANGED skipped
    /\ idx' = idx + 1
    /\ UNCHANGED <<script, snapshotFile, ledgerFile, slots, pc, valid_coords,
                   prev_alerts_dict, alerts, changes, loaded_ledger, everNotifiable,
                   raised, fetches, run, arg, ret, trail, peer, overlapped, newsVars>>

\* one iteration of "for change_type, alert in changes" (live lines 390-411)
LiveNotifyTimed ==
    /\ script = "live"
    /\ pc = "notify"
    /\ idx < Len(changes)
    /\ LET alert == changes[idx + 1][2]
           key == LedgerKey(alert)
       IN /\ TimedSend
          /\ tweets' = Append(tweets, changes[idx + 1])
          /\ tweeted_alerts' = SetEntry(tweeted_alerts, key, LiveEntry(alert))
    /\ idx' = idx + 1
    /\ UNCHANGED <<script, snapshotFile, ledgerFile, slots, pc, valid_coords,
                   prev_alerts_dict, alerts, changes, loaded_ledger, skipped,
                   everNotifiable, raised, fetches, run, arg, ret, trail, peer,
                   overlapped, newsVars>>

NextThrottle == GlofasNotifyTimed \/ LiveNotifyTimed

SpecThrottle == InitThrottle /\ [][NextThrottle]_vars

-----------------------------------------------------------------------------
(* Two processes of the same script, each running main once on the same
   files.  The two are alike, so the one that loads first is taken to be this
   process; the second may load while the first is still running or after it
   returned. *)

\* main of the second process after its loads, its evaluation and its diff
\* (glofas lines 401-430)
GlofasPeerFrame(hotspots) ==
    LET prev == build_alert_dict(load_json(snapshotFile).alerts)
        built == [i \in 1..Len(hotspots) |-> build_alert_from_hotspot(hotspots[i])]
    IN [pc |-> "notify",
        prev_alerts_dict |-> prev,
        alerts |-> built,
        changes |-> compare_alerts(prev, build_alert_dict(built)),
        idx |-> 0,
        tweeted_alerts |-> load_tweeted_alerts(ledgerFile),
        tweets |-> <<>>,
        skipped |-> <<>>]

\* the same in the live script (lines 309-369)
LivePeerFrame(df, weather) ==
    LET prev == build_alert_dict(load_json(snapshotFile).alerts)
        evaluated == EvaluateRows(df, weather)
    IN [pc |-> "notify",
        prev_alerts_dict |-> prev,
        alerts |-> evaluated,
        changes |-> live_compare_alerts(prev, build_alert_dict(evaluated)),
        idx |-> 0,
        tweeted_alerts |-> cleanup_tweeted_alerts(load_tweeted_alerts(ledgerFile),
                                                  ValidCoords(df)),
        tweets |-> <<>>,
        skipped |-> <<>>]

\* the second process starts, once the first has loaded
PeerStart ==
    /\ pc # "idle"
    /\ peer.pc = "idle"
    /\ IF script = "glofas"
       THEN \E hotspots \in HotspotLists(Len(SITES)) :
                peer' = GlofasPeerFrame(hotspots)
       ELSE \E df \in CsvTables(Len(SITES)), weather \in WeatherChoices :
                peer' = LivePeerFrame(df, weather)
    /\ overlapped' = (pc # "done")
    /\ UNCHANGED <<script, snapshotFile, ledgerFile, slots, pc, valid_coords,
                   prev_alerts_dict, alerts, changes, idx, tweeted_alerts,
                   loaded_ledger, tweets, skipped, everNotifiable, raised, fetches,
                   run, arg, ret, trail, clock, last_tweet_ts, sends, newsVars>>

\* whether the second process skips its next change
PeerSkips ==
    LET change_type == peer.changes[peer.idx + 1][1]
        key == LedgerKey(peer.changes[peer.idx + 1][2])
    IN IF script = "glofas"
       THEN GlofasSkips(change_type, key, peer.tweeted_alerts)
       ELSE LiveSkips(change_type, key, peer.tweeted_alerts)

\* one iteration of its loop over changes
PeerNotify ==
    /\ peer.pc = "notify"
    /\ peer.idx < Len(peer.changes)
    /\ LET change == peer.changes[peer.idx + 1]
           alert == change[2]
           entry == IF script = "glofas" THEN GlofasEntry(alert) ELSE LiveEntry(alert)
       IN peer' = IF PeerSkips
                  THEN [peer EXCEPT !.skipped = Append(@, change), !.idx = @ + 1]
                  ELSE [peer EXCEPT !.tweets = Append(@, change),
                                    !.tweeted_alerts = SetEntry(@, LedgerKey(alert), entry),
                                    !.idx = @ + 1]
    /\ UNCHANGED <<script, snapshotFile, ledgerFile, slots, pc, valid_coords,
                   prev_alerts_dict, alerts, changes, idx, tweeted_alerts,
                   loaded_ledger, tweets, skipped, everNotifiable, raised, fetches,
                   run, arg, ret, trail, clock, last_tweet_ts, sends, overlapped, newsVars>>

\* its save_tweeted_alerts(tweeted_alerts)
PeerSaveLedger ==
    /\ peer.pc = "notify"
    /\ peer.idx = Len(peer.changes)
    /\ ledgerFile' = FileOf(LedgerWritten(peer.tweeted_alerts))
    /\ peer' = [peer EXCEPT !.pc = IF script = "glofas" THEN "rotate" ELSE "write"]
    /\ UNCHANGED <<script, snapshotFile, slots, pc, valid_coords,
                   prev_alerts_dict, alerts, changes, idx, tweeted_alerts,
                   loaded_ledger, tweets, skipped, everNotifiable, raised, fetches,
                   run, arg, ret, trail, clock, last_tweet_ts, sends, overlapped, newsVars>>

\* its rotate_comparison_snapshots(GLOFAS_COMPARISON_PATH)
PeerRotate ==
    /\ peer.pc = "rotate"
    /\ LET rotated == rotate_comparison_snapshots(SnapshotFiles, COMPARISON_HISTORY)
       IN /\ slots' = [i \in 1..COMPARISON_HISTORY |-> rotated[i].exists]
          /\ snapshotFile' = IF rotated[0].exists THEN snapshotFile ELSE NoFile
    /\ peer' = [peer EXCEPT !.pc = "write"]
    /\ UNCHANGED <<script, ledgerFile, pc, valid_coords,
                   prev_alerts_dict, alerts, changes, idx, tweeted_alerts,
                   loaded_ledger, tweets, skipped, everNotifiable, raised, fetches,
                   run, arg, ret, trail, clock, last_tweet_ts, sends, overlapped, newsVars>>

\* its json.dump(result, f) to the base path
PeerWriteSnapshot ==
    /\ peer.pc = "write"
    /\ snapshotFile' = FileOf(SnapshotWritten(Result(peer.alerts)))
    /\ peer' = [peer EXCEPT !.pc = "done"]
    /\ UNCHANGED <<script, ledgerFile, slots, pc, valid_coords,
                   prev_alerts_dict, alerts, changes, idx, tweeted_alerts,
                   loaded_ledger, tweets, skipped, everNotifiable, raised, fetches,
                   run, arg, ret, trail, clock, last_tweet_ts, sends, overlapped, newsVars>>

InitOverlap == Init

NextOverlap ==
    \/ GlofasStart
    \/ GlofasNotify
    \/ GlofasSaveLedger
    \/ GlofasRotate
    \/ GlofasWriteSnapshot
    \/ LiveStart
    \/ LiveNotify
    \/ LiveSaveLedger
    \/ LiveWriteSnapshot
    \/ PeerStart
    \/ PeerNotify
    \/ PeerSaveLedger
    \/ PeerRotate
    \/ PeerWriteSnapshot

SpecOverlap == InitOverlap /\ [][NextOverlap]_vars

-----------------------------------------------------------------------------
(* The news bot (news-feed.py): its processed log, its reply log, and one
   action per run of its main, a run for each tweet type; runs come one after
   the other and days pass between them.  A day is a number; a run is within
   one day and at a time of day after 00:00:00 *)

RETENTION_DAYS == 10
TWEET_THRESHOLD == 9
NEWS_TWEETS_LIMIT == 4
STAT_TWEETS_LIMIT == 1
INFRA_TWEETS_LIMIT == 1
REPLY_TWEETS_LIMIT == 1
PER_RUN_CAP == 3
SIMILAR_LIMIT == 30

MaxFeed == 4
MaxBotRuns == 3

\* the days on which the bot is run: its first day, the last day an entry of
\* the first day is kept on, and the day after
RunDays == {0, RETENTION_DAYS - 1, RETENTION_DAYS}

\* the variables of the two evaluators, which the news bot does not touch;
\* its runs are counted in run
evaluatorVars ==
    <<script, snapshotFile, ledgerFile, slots, pc, valid_coords,
      prev_alerts_dict, alerts, changes, idx, tweeted_alerts,
      loaded_ledger, tweets, skipped, everNotifiable, raised, fetches,
      arg, ret, trail, clock, last_tweet_ts, sends, peer, overlapped>>

\* a run of the bot starts
BotRunStarts ==
    /\ run < MaxBotRuns
    /\ run' = run + 1

\* the articles the feeds may carry: the link, the key terms
\* extract_key_terms finds in title and summary (numbered words), and the
\* integer the scoring model replies with
ARTICLES ==
    << [link |-> "a", terms |-> {1, 2, 3}, answer |-> 9],
       [link |-> "b", terms |-> {1, 2, 4}, answer |-> 5],
       [link |-> "c", terms |-> {5, 6}, answer |-> 10],
       [link |-> "d", terms |-> {7, 8}, answer |-> 9],
       [link |-> "e", terms |-> {9, 10}, answer |-> 9],
       [link |-> "f", terms |-> {11, 12}, answer |-> 9] >>

\* what get_latest_news may return: the articles are published in their
\* order and the feeds carry those of the last six hours, the last MaxFeed
\* published at most; or two feeds carry the same article
FeedChoices ==
    { SubSeq(ARTICLES, Max(1, j - MaxFeed + 1), j) : j \in 0..Len(ARTICLES) }
        \cup { << ARTICLES[1], ARTICLES[1] >> }

\* get_news_relevance_score: the integer of the reply if it is in 0..10,
\* otherwise 0
get_news_relevance_score(article) ==
    IF 0 <= article.answer /\ article.answer <= 10 THEN article.answer ELSE 0

\* load_processed_articles: [] for a missing file and for one that does not
\* parse; every entry this program writes is a dict with "date"
load_processed_articles(file) ==
    IF file.exists /\ file.parses THEN file.content ELSE <<>>

\* cleanup_old_articles: an entry stays if 00:00 of its date is not before
\* utcnow() - RETENTION_DAYS days
cleanup_old_articles(processed, day) ==
    LET Recent(a) == a.date > day - RETENTION_DAYS
    IN SelectSeq(processed, Recent)

\* what save_processed_articles may meet
SaveOutcomes == {"written", "truncated", "unopened"}

\* save_processed_articles: the file afterwards; an exception of open or of
\* json.dump is caught and printed
save_processed_articles(file, processed, outcome) ==
    IF outcome = "written" THEN FileOf(processed)
    ELSE IF outcome = "truncated" THEN Truncated
    ELSE file

\* count_news_tweets_today, count_stat_tweets_today, count_infra_tweets_today
count_tweets_today(processed, day, type) ==
    Cardinality({ i \in DOMAIN processed :
                    processed[i].date = day /\ processed[i].type = type })

\* is_similar_news with threshold=0.5: some entry among the last 30 scored at
\* the threshold or above shares half of the union of the key terms
is_similar_news(article, processed) ==
    LET High(a) == a.score >= TWEET_THRESHOLD
        recent_articles == LastOf(SelectSeq(processed, High), SIMILAR_LIMIT)
    IN \E i \in 1..Len(recent_articles) :
          LET old_keywords == recent_articles[i].terms
              new_keywords == article.terms
          IN /\ old_keywords # {}
             /\ 2 * Cardinality(new_keywords \cap old_keywords)
                   >= Cardinality(new_keywords \cup old_keywords)

\* the entry of an article excluded as similar, and the one of a scored
\* article (lines 625-634, 639-648); an absent "type" is ""
SkippedEntry(article, day) ==
    [link |-> article.link, date |-> day, score |-> 0, status |-> "skipped",
     type |-> "", terms |-> article.terms]

BaseEntry(article, day) ==
    [link |-> article.link, date |-> day, score |-> get_news_relevance_score(article),
     status |-> "processed", type |-> "", terms |-> article.terms]

\* the entry of a posted article (lines 671-681); the tweet is taken to use
\* the terms of the article
PostedEntry(item, day) ==
    [link |-> item.link, date |-> day, score |-> item.score, status |-> "posted",
     type |-> "news", terms |-> item.terms]

\* the entry of a posted statistical or infrastructure tweet; link None is ""
GeneratedEntry(type, day) ==
    [link |-> "", date |-> day, score |-> 0, status |-> "posted",
     type |-> type, terms |-> {}]

\* one iteration of the loop of lines 613-650 that does not look at the
\* links of the log
ScanArticle_rescans(before, article, filtered_links, count, day) ==
    IF count >= NEWS_TWEETS_LIMIT THEN before
    ELSE IF article.link \in before.seen_links THEN before
    ELSE IF is_similar_news(article, before.processed)
         THEN [processed |-> Append(before.processed, SkippedEntry(article, day)),
               seen_links |-> before.seen_links \cup {article.link},
               scored_news |-> before.scored_news]
         ELSE [processed |-> Append(before.processed, BaseEntry(article, day)),
               seen_links |-> before.seen_links \cup {article.link},
               scored_news |-> Append(before.scored_news,
                                      [score |-> get_news_relevance_score(article),
                                       link |-> article.link,
                                       terms |-> article.terms])]

\* one iteration of the loop of lines 613-650
ScanArticle(before, article, filtered_links, count, day) ==
    IF count >= NEWS_TWEETS_LIMIT THEN before
    ELSE IF article.link \in before.seen_links \/ article.link \in filtered_links
         THEN before
    ELSE IF is_similar_news(article, before.processed)
         THEN [processed |-> Append(before.processed, SkippedEntry(article, day)),
               seen_links |-> before.seen_links \cup {article.link},
               scored_news |-> before.scored_news]
         ELSE [processed |-> Append(before.processed, BaseEntry(article, day)),
               seen_links |-> before.seen_links \cup {article.link},
               scored_news |-> Append(before.scored_news,
                                      [score |-> get_news_relevance_score(article),
                                       link |-> article.link,
                                       terms |-> article.terms])]

\* the loop of lines 613-650 over the first n items of the feed
RECURSIVE ScanFeed(_, _, _, _, _, _)
ScanFeed(feed, n, processed, filtered_links, count, day) ==
    IF n = 0 THEN [processed |-> processed, seen_links |-> {}, scored_news |-> <<>>]
    ELSE CHOOSE after \in
            { ScanArticle(before, feed[n], filtered_links, count, day) :
                before \in { ScanFeed(feed, n - 1, processed, filtered_links, count, day) } } :
            TRUE

\* scored_news.sort(reverse=True, key=score): the items of score s and below,
\* highest first, equal scores in their order
RECURSIVE SortedFrom(_, _)
SortedFrom(scored_news, s) ==
    IF s < 0 THEN <<>>
    ELSE LET At(x) == x.score = s
         IN SelectSeq(scored_news, At) \o SortedFrom(scored_news, s - 1)

\* lines 656-662 without the cap of a run
top_articles_uncapped(scored_news, count) ==
    LET remaining_slots == Max(0, NEWS_TWEETS_LIMIT - count)
    IN SubSeq(SortedFrom(scored_news, 10), 1, Min(Len(scored_news), remaining_slots))

\* lines 652-662: the articles this run may tweet
top_articles(scored_news, count) ==
    LET remaining_slots == Max(0, NEWS_TWEETS_LIMIT - count)
        max_to_tweet == Min(remaining_slots, PER_RUN_CAP)
    IN SubSeq(SortedFrom(scored_news, 10), 1, Min(Len(scored_news), max_to_tweet))

\* what an article of top_articles at the threshold may meet: summarize_news
\* raises; post_tweet returns False; post_tweet returns True
PostOutcomes == {"summarize_raises", "refused", "posted"}

\* one iteration of the loop of lines 664-683 for the article item, which
\* meets outcome if it is at the threshold
PostArticle(before, item, outcome, day) ==
    IF before.crashed \/ before.count >= NEWS_TWEETS_LIMIT THEN before
    ELSE IF item.score < TWEET_THRESHOLD THEN before
    ELSE IF outcome = "summarize_raises" THEN [before EXCEPT !.crashed = TRUE]
    ELSE IF outcome = "posted"
         THEN [processed |-> Append(before.processed, PostedEntry(item, day)),
               count |-> before.count + 1,
               attempted |-> before.attempted \cup {item.link},
               tweeted |-> before.tweeted \cup {item.link},
               crashed |-> FALSE]
         ELSE [before EXCEPT !.attempted = @ \cup {item.link}]

\* the loop of lines 664-683 over the first n of top_articles
RECURSIVE PostTop(_, _, _, _, _, _)
PostTop(top, n, processed, count, outcomes, day) ==
    IF n = 0 THEN [processed |-> processed, count |-> count, attempted |-> {},
                   tweeted |-> {}, crashed |-> FALSE]
    ELSE CHOOSE after \in
            { PostArticle(before, top[n], outcomes[n], day) :
                before \in { PostTop(top, n - 1, processed, count, outcomes, day) } } :
            TRUE

\* load_reply_log: {} for a missing file; keys are the text of tweet ids
load_reply_log(file) == IF file.exists THEN file.content ELSE {}

\* count_replies_today
count_replies_today(reply_log, day) ==
    Cardinality({ entry \in reply_log : entry.date = day })

\* the key of a tweet in the reply log: str(tweet_id)
ReplyKey(tweet_id) == DigitChars(tweet_id)

\* the ids of the tweets of a target account, most recent first
TWEET_IDS == <<103, 102, 101>>

\* what fetch_latest_tweets may return: [] (nothing, or the request failed)
\* or the most recent tweets there are at the time
TweetChoices == { SubSeq(TWEET_IDS, k, Len(TWEET_IDS)) : k \in 1..(Len(TWEET_IDS) + 1) }

\* pick_most_recent_tweet taking the first tweet whatever the log holds
pick_most_recent_tweet_any(all_tweets, reply_log) ==
    IF all_tweets = <<>> THEN <<>> ELSE << all_tweets[1] >>

\* pick_most_recent_tweet: the first tweet whose key is not in the log, None
\* (<<>>) when there is none
pick_most_recent_tweet(all_tweets, reply_log) ==
    LET New(t) == \A entry \in reply_log : entry.key # ReplyKey(t)
        new_tweets == SelectSeq(all_tweets, New)
    IN IF new_tweets = <<>> THEN <<>> ELSE << new_tweets[1] >>

\* what this day's counts of the log make of the main of a tweet type
AtLimit(type) ==
    LET processed == load_processed_articles(newsFile) IN
    CASE type = "news" ->
            count_tweets_today(processed, today, "news") >= NEWS_TWEETS_LIMIT
      [] type = "statistical" ->
            count_tweets_today(processed, today, "statistical") >= STAT_TWEETS_LIMIT
      [] type = "infrastructure" ->
            count_tweets_today(processed, today, "infrastructure") >= INFRA_TWEETS_LIMIT
      [] type = "reply" ->
            count_replies_today(load_reply_log(replyFile), today) >= REPLY_TWEETS_LIMIT
      [] OTHER -> FALSE

\* main, lines 572-580: load_reply_log raises on a file that does not parse
\* and nothing catches it
NewsMainLoadRaises ==
    /\ BotRunStarts
    /\ LoadRaises(replyFile)
    /\ lastRun' = [NoRun EXCEPT !.type = "load_raised"]
    /\ UNCHANGED <<newsFile, replyFile, today, posted, evaluatorVars>>

\* main, lines 572-598: the type select_tweet_type drew is at its limit of
\* the day and main exits
RunAtLimit ==
    /\ BotRunStarts
    /\ ~LoadRaises(replyFile)
    /\ \E type \in {"news", "statistical", "infrastructure", "reply"} :
         /\ AtLimit(type)
         /\ lastRun' = [NoRun EXCEPT !.type = type \o " at limit"]
    /\ UNCHANGED <<newsFile, replyFile, today, posted, evaluatorVars>>

\* main with tweet_type "news" (lines 572-598, 606-683, 722-724)
NewsRun ==
    /\ BotRunStarts
    /\ ~LoadRaises(replyFile)
    /\ ~AtLimit("news")
    /\ \E feed \in FeedChoices, processed \in { load_processed_articles(newsFile) } :
         LET filtered_links == { processed[i].link : i \in DOMAIN processed } \ {""}
             count == count_tweets_today(processed, today, "news")
         IN \E scan \in { ScanFeed(feed, Len(feed), processed, filtered_links, count, today) } :
            \E top \in { top_articles(scan.scored_news, count) } :
            \E outcomes \in [1..Len(top) -> PostOutcomes], save \in SaveOutcomes :
            \E done \in { PostTop(top, Len(top), scan.processed, count, outcomes, today) } :
              /\ newsFile' = IF done.crashed THEN newsFile
                             ELSE save_processed_articles(
                                     newsFile,
                                     cleanup_old_articles(done.processed, today),
                                     save)
              /\ lastRun' = [NoRun EXCEPT
                               !.type = "news",
                               !.feed = { feed[i].link : i \in DOMAIN feed },
                               !.scored = { scan.scored_news[i].link :
                                              i \in DOMAIN scan.scored_news },
                               !.attempted = done.attempted,
                               !.tweeted = done.tweeted]
              /\ posted' = IF posted.saved /\ ~done.crashed /\ save = "written"
                            THEN [posted EXCEPT !.news = @ + Cardinality(done.tweeted)]
                            ELSE Unsaved
    /\ UNCHANGED <<replyFile, today, evaluatorVars>>

\* main with tweet_type "statistical" or "infrastructure" (lines 572-598,
\* 686-717, 722-724): the generator raises, or post_tweet answers False or
\* True
GeneratedRun ==
    /\ BotRunStarts
    /\ ~LoadRaises(replyFile)
    /\ \E type \in {"statistical", "infrastructure"},
          outcome \in {"generate_raises", "refused", "posted"},
          save \in SaveOutcomes :
         LET processed == load_processed_articles(newsFile)
             after == IF outcome = "posted"
                      THEN Append(processed, GeneratedEntry(type, today))
                      ELSE processed
         IN /\ ~AtLimit(type)
            /\ newsFile' = IF outcome = "generate_raises" THEN newsFile
                           ELSE save_processed_articles(
                                   newsFile, cleanup_old_articles(after, today), save)
            /\ lastRun' = [NoRun EXCEPT !.type = type]
            /\ posted' = IF posted.saved /\ outcome # "generate_raises" /\ save = "written"
                          THEN [posted EXCEPT
                                   ![type] = IF outcome = "posted" THEN @ + 1 ELSE @]
                          ELSE Unsaved
    /\ UNCHANGED <<replyFile, today, evaluatorVars>>

\* main with tweet_type "none" (lines 572-598, 719-724)
IdleRun ==
    /\ BotRunStarts
    /\ ~LoadRaises(replyFile)
    /\ \E save \in SaveOutcomes :
         /\ newsFile' = save_processed_articles(
                           newsFile,
                           cleanup_old_articles(load_processed_articles(newsFile), today),
                           save)
         /\ posted' = IF posted.saved /\ save = "written" THEN posted ELSE Unsaved
    /\ lastRun' = [NoRun EXCEPT !.type = "none"]
    /\ UNCHANGED <<replyFile, today, evaluatorVars>>

\* what reply_to_random_tweet may meet after it selected a tweet:
\* generate_grok_reply raises or returns ""; create_tweet raises
\* TweepyException; the reply is posted and save_reply_log writes the file,
\* leaves it cut, or cannot open it
ReplyOutcomes ==
    {"generate_raises", "empty", "refused", "posted_written", "posted_truncated",
     "posted_unopened"}

\* main with tweet_type "reply" (lines 572-603) and reply_to_random_tweet
ReplyRun ==
    /\ BotRunStarts
    /\ ~LoadRaises(replyFile)
    /\ ~AtLimit("reply")
    /\ \E all_tweets \in TweetChoices, outcome \in ReplyOutcomes :
         LET reply_log == load_reply_log(replyFile)
             selected == IF all_tweets = <<>> THEN <<>>
                         ELSE pick_most_recent_tweet(all_tweets, reply_log)
             is_posted == selected # <<>> /\ outcome \in {"posted_written",
                                                         "posted_truncated",
                                                         "posted_unopened"}
             updated == reply_log \cup { [key |-> ReplyKey(selected[1]), date |-> today] }
         IN /\ replyFile' = IF ~is_posted \/ outcome = "posted_unopened" THEN replyFile
                            ELSE IF outcome = "posted_truncated" THEN Truncated
                            ELSE FileOf(updated)
            /\ lastRun' = [NoRun EXCEPT !.type = "reply",
                                        !.selected = selected,
                                        !.replied = is_posted]
            /\ posted' = IF posted.saved /\ (is_posted => outcome = "posted_written")
                          THEN [posted EXCEPT !.reply = IF is_posted THEN @ + 1 ELSE @]
                          ELSE Unsaved
    /\ UNCHANGED <<newsFile, today, evaluatorVars>>

\* days go by with no run, up to the next day the bot is run on
DaysPass ==
    /\ \E day \in RunDays :
         /\ day > today
         /\ today' = day
    /\ posted' = NothingPosted
    /\ UNCHANGED <<newsFile, replyFile, lastRun, run, evaluatorVars>>

InitNews ==
    /\ script = "news"
    /\ snapshotFile = NoFile
    /\ ledgerFile = NoFile
    /\ slots = NoSlots
    /\ pc = "idle"
    /\ valid_coords = {}
    /\ prev_alerts_dict = <<>>
    /\ alerts = <<>>
    /\ changes = <<>>
    /\ idx = 0
    /\ tweeted_alerts = <<>>
    /\ loaded_ledger = <<>>
    /\ tweets = <<>>
    /\ skipped = <<>>
    /\ everNotifiable = {}
    /\ raised = {}
    /\ fetches = <<>>
    /\ run = 0
    /\ arg = <<>>
    /\ ret = <<>>
    /\ Unfollowed
    /\ NewsBotIdle

\* the runs that post news, statistics or nothing
NextNews ==
    \/ RunAtLimit
    \/ NewsRun
    \/ GeneratedRun
    \/ IdleRun
    \/ DaysPass

SpecNews == InitNews /\ [][NextNews]_vars

\* the runs that reply
NextReply ==
    \/ NewsMainLoadRaises
    \/ RunAtLimit
    \/ ReplyRun
    \/ DaysPass

SpecReply == InitNews /\ [][NextReply]_vars

-----------------------------------------------------------------------------
(* Vocabulary of the properties *)

\* the order None < Low < Medium < High < Extreme
Ord(l) ==
    CASE l = "None" -> 0
      [] l = "Low" -> 1
      [] l = "Medium" -> 2
      [] l = "High" -> 3
      [] l = "Extreme" -> 4

\* the current mapping of the run
Curr == build_alert_dict(alerts)

\* how many entries of changes are (kind, c)
Count(kind, c) == Cardinality({ j \in 1..Len(changes) : changes[j] = <<kind, c>> })

\* how many entries of changes carry the record c
CountAny(c) == Cardinality({ j \in 1..Len(changes) : changes[j][2] = c })

InBoth(i) == DictHas(prev_alerts_dict, Curr[i].key)

PrevLevel(i) == DictGet(prev_alerts_dict, Curr[i].key).dynamic_level

CurLevel(i) == Curr[i].val.dynamic_level

\* C1: for a site in both mappings at different levels, compare_alerts emits
\* an Upgrade exactly when the current level is ordinally higher than the
\* previous one and is Medium, High or Extreme; a rise into a level below
\* Medium (None -> Low) emits nothing at all.
C1_UpgradeExactly ==
    pc = "diffed" =>
        \A i \in 1..Len(Curr) :
            (InBoth(i) /\ PrevLevel(i) # CurLevel(i)) =>
                /\ Count("Upgrade", Curr[i].val) =
                      (IF Ord(CurLevel(i)) > Ord(PrevLevel(i)) /\ CurLevel(i) \in Notifiable
                       THEN 1 ELSE 0)
                /\ (Ord(CurLevel(i)) > Ord(PrevLevel(i)) /\ CurLevel(i) \notin Notifiable)
                      => CountAny(Curr[i].val) = 0

C1_Witness ==
    /\ pc = "diffed"
    /\ \E i, j \in 1..Len(Curr) :
          /\ InBoth(i) /\ PrevLevel(i) = "Low" /\ CurLevel(i) = "Medium"
          /\ Count("Upgrade", Curr[i].val) = 1
          /\ InBoth(j) /\ PrevLevel(j) = "None" /\ CurLevel(j) = "Low"
          /\ CountAny(Curr[j].val) = 0

\* C2: for a site in both mappings, compare_alerts emits a Downgrade exactly
\* when the current level is ordinally lower than the previous one and the
\* previous level is Medium, High or Extreme, whatever the current level;
\* Low -> None emits nothing.
C2_DowngradeExactly ==
    pc = "diffed" =>
        \A i \in 1..Len(Curr) :
            InBoth(i) =>
                /\ Count("Downgrade", Curr[i].val) =
                      (IF Ord(CurLevel(i)) < Ord(PrevLevel(i)) /\ PrevLevel(i) \in Notifiable
                       THEN 1 ELSE 0)
                /\ (Ord(CurLevel(i)) < Ord(PrevLevel(i)) /\ PrevLevel(i) \notin Notifiable)
                      => CountAny(Curr[i].val) = 0

C2_Witness ==
    /\ pc = "diffed"
    /\ \E i, j \in 1..Len(Curr) :
          /\ InBoth(i) /\ PrevLevel(i) = "Medium" /\ CurLevel(i) = "None"
          /\ Count("Downgrade", Curr[i].val) = 1
          /\ InBoth(j) /\ PrevLevel(j) = "High" /\ CurLevel(j) = "Low"
          /\ Count("Downgrade", Curr[j].val) = 1

\* C3: a site whose key is in current and not in previous yields exactly one
\* transition, a New, when its level is Medium, High or Extreme, and no
\* transition when its level is None or Low.
C3_NewExactly ==
    pc = "diffed" =>
        \A i \in 1..Len(Curr) :
            ~InBoth(i) =>
                /\ Count("New", Curr[i].val) = (IF CurLevel(i) \in Notifiable THEN 1 ELSE 0)
                /\ CountAny(Curr[i].val) = (IF CurLevel(i) \in Notifiable THEN 1 ELSE 0)

C3_Witness ==
    /\ pc = "diffed"
    /\ \E i, j \in 1..Len(Curr) :
          /\ ~InBoth(i) /\ CurLevel(i) = "Medium" /\ Count("New", Curr[i].val) = 1
          /\ ~InBoth(j) /\ CurLevel(j) = "Low" /\ CountAny(Curr[j].val) = 0

-----------------------------------------------------------------------------
(* Vocabulary of the properties about a run *)

RunPcs == {"notify", "rotate", "write", "done"}

\* save_tweeted_alerts has run
Saved == pc \in {"rotate", "write", "done"}

Kind(j) == changes[j][1]

KeyOf(j) == LedgerKey(changes[j][2])

LevelOf(j) == changes[j][2].dynamic_level

\* tweet_alert was called for the j-th change
Tweeted(j) == \E t \in 1..Len(tweets) : tweets[t] = changes[j]

\* the ledger the loop starts from: as loaded by glofas, as loaded and
\* cleaned by live
StartLedgerKeys ==
    IF script = "live"
    THEN { k \in DOMAIN loaded_ledger : k \in valid_coords }
    ELSE DOMAIN loaded_ledger

HasResolved(e) == "resolved" \in DOMAIN e /\ e.resolved = TRUE

NoLevelChanged == \A i \in 1..Len(Curr) : InBoth(i) /\ PrevLevel(i) = CurLevel(i)

\* C4: when every site of current is in previous at the same level,
\* compare_alerts returns the empty list, and the run calls tweet_alert for
\* nothing and writes no ledger entry: every entry it holds and saves is an
\* entry it loaded, unchanged.
C4_NoChangeNoEffect ==
    (pc \in RunPcs /\ NoLevelChanged) =>
        /\ changes = <<>>
        /\ tweets = <<>>
        /\ \A k \in DOMAIN tweeted_alerts :
              k \in DOMAIN loaded_ledger /\ tweeted_alerts[k] = loaded_ledger[k]
        /\ Saved =>
              \A k \in DOMAIN ledgerFile.content :
                  k \in DOMAIN loaded_ledger /\ ledgerFile.content[k] = loaded_ledger[k]

C4_Witness ==
    /\ pc = "done"
    /\ Len(Curr) = 2
    /\ NoLevelChanged
    /\ \E i \in 1..Len(Curr) : CurLevel(i) = "High"
    /\ DOMAIN ledgerFile.content # {}
    /\ tweets = <<>>

\* C5: in a glofas run a Downgrade whose key is not in the loaded ledger is
\* suppressed: tweet_alert is not called for it and neither the in-memory nor
\* the saved ledger gets that key; every other change is notified, and the
\* run goes on to the end of the list and saves.
C5_GlofasDowngradeSuppressed ==
    (script = "glofas" /\ pc \in RunPcs) =>
        /\ \A j \in 1..idx :
              IF Kind(j) = "Downgrade" /\ KeyOf(j) \notin DOMAIN loaded_ledger
              THEN /\ ~Tweeted(j)
                   /\ KeyOf(j) \notin DOMAIN tweeted_alerts
                   /\ Saved => KeyOf(j) \notin DOMAIN ledgerFile.content
              ELSE Tweeted(j)
        /\ Saved => idx = Len(changes)

C5_Witness ==
    /\ script = "glofas"
    /\ pc = "done"
    /\ Len(changes) = 2
    /\ Kind(1) = "Downgrade" /\ KeyOf(1) \notin DOMAIN loaded_ledger
    /\ ~Tweeted(1) /\ KeyOf(1) \notin DOMAIN ledgerFile.content
    /\ Tweeted(2)

\* C6: in a live run a Downgrade whose key is not in the ledger after cleanup
\* is suppressed: tweet_alert is not called for it and no ledger entry is
\* created for that key.
C6_LiveDowngradeSuppressed ==
    (script = "live" /\ pc \in RunPcs) =>
        \A j \in 1..idx :
            (Kind(j) = "Downgrade" /\ KeyOf(j) \notin StartLedgerKeys) =>
                /\ ~Tweeted(j)
                /\ KeyOf(j) \notin DOMAIN tweeted_alerts
                /\ Saved => KeyOf(j) \notin DOMAIN ledgerFile.content

\* C7: in both evaluators every New and every Upgrade of the diff is
\* notified whatever the ledger holds, and the ledger entry of its key, in
\* memory and once saved, records the site's current level.
C7_NewUpgradeNotified ==
    pc \in RunPcs =>
        /\ \A j \in 1..idx :
              Kind(j) \in {"New", "Upgrade"} =>
                  /\ Tweeted(j)
                  /\ KeyOf(j) \in DOMAIN tweeted_alerts
                  /\ tweeted_alerts[KeyOf(j)].risk_level = LevelOf(j)
                  /\ Saved =>
                        /\ KeyOf(j) \in DOMAIN ledgerFile.content
                        /\ ledgerFile.content[KeyOf(j)].risk_level = LevelOf(j)
        /\ Saved => idx = Len(changes)

C7_Witness ==
    /\ pc = "done"
    /\ Len(changes) = 2
    /\ Kind(1) = "Upgrade" /\ KeyOf(1) \notin DOMAIN loaded_ledger
    /\ Kind(2) = "New" /\ KeyOf(2) \in DOMAIN loaded_ledger
    /\ loaded_ledger[KeyOf(2)].risk_level # LevelOf(2)
    /\ Tweeted(1) /\ Tweeted(2)
    /\ ledgerFile.content[KeyOf(1)].risk_level = LevelOf(1)
    /\ ledgerFile.content[KeyOf(2)].risk_level = LevelOf(2)

\* C8: in both evaluators every ledger entry a run writes carries
\* resolved = true exactly when its risk_level is outside Medium, High,
\* Extreme, and the entry of a site that fell below Medium is kept.
C8_ResolvedMarker ==
    pc \in RunPcs =>
        \A j \in 1..idx :
            Tweeted(j) =>
                /\ KeyOf(j) \in DOMAIN tweeted_alerts
                /\ HasResolved(tweeted_alerts[KeyOf(j)])
                      <=> (tweeted_alerts[KeyOf(j)].risk_level \notin Notifiable)

\* C9: from an empty ledger, every key of the ledger, in memory and on disk,
\* is the key of a site that was at Medium, High or Extreme in the previous
\* or current mapping of this or an earlier run.
C9_LedgerOnlyNotifiedSites ==
    /\ \A k \in DOMAIN tweeted_alerts :
          /\ LedgerKey(tweeted_alerts[k]) = k
          /\ AlertKey(tweeted_alerts[k]) \in everNotifiable
    /\ \A k \in DOMAIN ledgerFile.content :
          /\ LedgerKey(ledgerFile.content[k]) = k
          /\ AlertKey(ledgerFile.content[k]) \in everNotifiable

C9_Witness ==
    /\ pc = "done"
    /\ \E k \in DOMAIN ledgerFile.content :
          ledgerFile.content[k].risk_level = "Low"
    /\ \E i \in 1..Len(alerts) :
          /\ alerts[i].dynamic_level = "Low"
          /\ AlertKey(alerts[i]) \notin everNotifiable
          /\ LedgerKey(alerts[i]) \notin DOMAIN ledgerFile.content

\* C10: a glofas run removes no ledger key: the keys it loaded are all in
\* memory and in the saved ledger.  A live run removes exactly the loaded
\* keys that are not coordinate keys of the CSV, and every kept entry that no
\* notified change rewrote is the loaded entry.
C10_LedgerKeysKept ==
    pc \in RunPcs =>
        /\ script = "glofas" =>
              /\ DOMAIN loaded_ledger \subseteq DOMAIN tweeted_alerts
              /\ Saved => DOMAIN loaded_ledger \subseteq DOMAIN ledgerFile.content
        /\ script = "live" =>
              /\ (DOMAIN loaded_ledger) \ (DOMAIN tweeted_alerts)
                    = (DOMAIN loaded_ledger) \ valid_coords
              /\ \A k \in (DOMAIN loaded_ledger) \cap valid_coords :
                    (\A j \in 1..idx : KeyOf(j) # k) => tweeted_alerts[k] = loaded_ledger[k]
              /\ Saved =>
                    /\ (DOMAIN loaded_ledger) \ (DOMAIN ledgerFile.content)
                          = (DOMAIN loaded_ledger) \ valid_coords
                    /\ \A k \in (DOMAIN loaded_ledger) \cap valid_coords :
                          (\A j \in 1..idx : KeyOf(j) # k)
                              => ledgerFile.content[k] = loaded_ledger[k]

C10_Witness ==
    /\ script = "live"
    /\ pc = "done"
    /\ Cardinality(DOMAIN loaded_ledger) = 2
    /\ Cardinality((DOMAIN loaded_ledger) \ valid_coords) = 1
    /\ changes = <<>>
    /\ Cardinality(DOMAIN ledgerFile.content) = 1
    /\ \A k \in DOMAIN ledgerFile.content : ledgerFile.content[k] = loaded_ledger[k]

-----------------------------------------------------------------------------
(* Properties about missing files and failures *)

\* C11: while a run that found no snapshot file is in its loop, its previous
\* mapping is empty, every site of current is absent from previous and the
\* diff holds exactly one New for each site at Medium, High or Extreme and
\* nothing else; a run that found no ledger file loaded an empty ledger;
\* and no run ends in a load error unless a file that is there fails to parse.
C11_AbsentFilesLoadEmpty ==
    /\ pc = "load_raised" => (LoadRaises(snapshotFile) \/ LoadRaises(ledgerFile))
    /\ pc = "notify" =>
          /\ ~snapshotFile.exists =>
                /\ prev_alerts_dict = <<>>
                /\ \A i \in 1..Len(Curr) :
                      /\ ~InBoth(i)
                      /\ Count("New", Curr[i].val) =
                            (IF CurLevel(i) \in Notifiable THEN 1 ELSE 0)
                /\ \A j \in 1..Len(changes) : Kind(j) = "New"
          /\ ~ledgerFile.exists => DOMAIN loaded_ledger = {}

C11_Witness ==
    /\ pc = "notify"
    /\ ~snapshotFile.exists
    /\ ~ledgerFile.exists
    /\ Len(Curr) = 2
    /\ Len(changes) = 1
    /\ Kind(1) = "New"
    /\ DOMAIN loaded_ledger = {}

\* C12: a run never ends in a load error; a run that found a snapshot or a
\* ledger file that does not parse goes on with an empty previous mapping or
\* an empty ledger.
C12_CorruptTreatedAsEmpty ==
    /\ pc # "load_raised"
    /\ (pc = "notify" /\ LoadRaises(snapshotFile)) => prev_alerts_dict = <<>>
    /\ (pc = "notify" /\ LoadRaises(ledgerFile)) => DOMAIN loaded_ledger = {}

\* C13: main reaches its last print only with the snapshot of this run
\* written to the base path; a run whose snapshot write raised has left main
\* (its frame is gone) at the error position, not at the end of main.
C13_SnapshotWriteFailureFatal ==
    /\ pc = "done" =>
          /\ snapshotFile.exists
          /\ snapshotFile.parses
          /\ snapshotFile.content.alerts = alerts
    /\ pc = "write_raised" => (tweets = <<>> /\ alerts = <<>> /\ idx = 0)

C13_Witness ==
    /\ script = "glofas"
    /\ pc = "write_raised"
    /\ ~snapshotFile.exists
    /\ slots[1]
    /\ ledgerFile.exists /\ ledgerFile.parses
    /\ DOMAIN ledgerFile.content # {}

\* C14: a change whose post raised was still taken through tweet_alert and
\* has its ledger entry at the site's current level, in memory and, once
\* saved, on disk; the loop still goes through every change before the save,
\* every change after it is notified or skipped as without the failure, and
\* the run is at a position of main, not at an error position.
C14_SendFailureDoesNotAbort ==
    (pc \in RunPcs) =>
        /\ \A j \in raised :
              /\ j \in 1..idx
              /\ Tweeted(j)
              /\ KeyOf(j) \in DOMAIN tweeted_alerts
              /\ tweeted_alerts[KeyOf(j)].risk_level = LevelOf(j)
              /\ Saved =>
                    /\ KeyOf(j) \in DOMAIN ledgerFile.content
                    /\ ledgerFile.content[KeyOf(j)].risk_level = LevelOf(j)
        /\ Len(tweets) + Len(skipped) = idx
        /\ Saved => idx = Len(changes)
        /\ pc = "done" => snapshotFile.content.alerts = alerts

C14_Witness ==
    /\ pc = "done"
    /\ Len(changes) = 2
    /\ raised = {1}
    /\ Tweeted(2)
    /\ KeyOf(1) \notin DOMAIN loaded_ledger
    /\ KeyOf(1) \in DOMAIN ledgerFile.content
    /\ KeyOf(2) \in DOMAIN ledgerFile.content
    /\ snapshotFile.content.alerts = alerts

\* every attempt of the call met an exception
AllAttemptsRaise(responses) ==
    \A a \in 1..Len(responses) : responses[a].raises # ""

\* some attempt got an answer and every attempt before it met a timeout or a
\* connection error
SomeAttemptAnswers(responses) ==
    \E a \in 1..Len(responses) :
        /\ responses[a].raises = ""
        /\ \A b \in 1..(a - 1) : responses[b].raises \in {"ReadTimeout", "ConnectionError"}

\* the positions of alerts that hold the point of the f-th fetch
AlertsOfFetch(f) ==
    { i \in 1..Len(alerts) :
        /\ alerts[i].latitude = SITES[fetches[f].JOIN_ID].latitude
        /\ alerts[i].longitude = SITES[fetches[f].JOIN_ID].longitude }

\* C15: in a live run a site whose every request attempt raised (a timeout,
\* a connection error or a request error) has no record in alerts; every
\* other site fetched has exactly one; the diff is the diff of what was
\* evaluated, the loop goes through all of it, and the snapshot written holds
\* the alerts evaluated.
C15_FailedFetchSkipsSite ==
    (script = "live" /\ pc \in RunPcs) =>
        /\ \A f \in 1..Len(fetches) :
              /\ AllAttemptsRaise(fetches[f].responses) => AlertsOfFetch(f) = {}
              /\ SomeAttemptAnswers(fetches[f].responses) =>
                    Cardinality(AlertsOfFetch(f)) = 1
        /\ Len(alerts) =
              Cardinality({ f \in 1..Len(fetches) : ~AllAttemptsRaise(fetches[f].responses) })
        /\ changes = live_compare_alerts(prev_alerts_dict, Curr)
        /\ Saved => idx = Len(changes)
        /\ pc = "done" => snapshotFile.content.alerts = alerts

C15_Witness ==
    /\ script = "live"
    /\ pc = "done"
    /\ Len(fetches) = 2
    /\ fetches[1].responses[1].raises = "RequestException"
    /\ fetches[2].responses[1].raises = ""
    /\ Len(alerts) = 1
    /\ Len(tweets) = 1
    /\ Cardinality(DOMAIN ledgerFile.content) = 1

-----------------------------------------------------------------------------
(* Properties of the snapshot rotation *)

\* C16: called with max_history = N >= 1 and the base file and the files 1..N
\* all present, rotate_comparison_snapshots leaves the base path absent, the
\* old base file at path 1 and the old file i at path i + 1 for 1 <= i < N;
\* the old file N is at no path, and the path N + 1 is as it was.
C16_RotateFullShifts ==
    (pc = "returned" /\ \A i \in 0..arg.max_history : arg.fs[i].exists) =>
        /\ ~ret[0].exists
        /\ ret[1] = arg.fs[0]
        /\ \A i \in 1..(arg.max_history - 1) : ret[i + 1] = arg.fs[i]
        /\ \A j \in 0..(arg.max_history + 1) : ret[j] # arg.fs[arg.max_history]
        /\ ret[arg.max_history + 1] = arg.fs[arg.max_history + 1]

C16_Witness ==
    /\ pc = "returned"
    /\ arg.max_history = 5
    /\ \A i \in 0..5 : arg.fs[i].exists
    /\ ret[5] = OldFile(4)
    /\ ret[1] = OldFile(0)
    /\ ~ret[0].exists

\* the numbered paths that hold a file
Occupied == { i \in DOMAIN slots : slots[i].exists }

\* C17: after every completed glofas run, whatever the number of runs, the
\* base path holds the snapshot this run wrote; from the second run on, path
\* 1 holds the snapshot of the run before; every numbered snapshot is older
\* than the base one and older than every numbered one of a lower index; and
\* at most COMPARISON_HISTORY numbered files exist, none beyond that index.
C17_HistoryOrderedAndBounded ==
    (pc \in {"done", "idle"} /\ run >= 1) =>
        /\ snapshotFile.exists
        /\ snapshotFile.content.run = run
        /\ pc = "done" => snapshotFile.content.alerts = alerts
        /\ run >= 2 => (slots[1].exists /\ slots[1].content.run = run - 1)
        /\ \A i \in Occupied : slots[i].content.run < snapshotFile.content.run
        /\ \A i, j \in Occupied : i < j => slots[i].content.run > slots[j].content.run
        /\ Cardinality(Occupied) <= COMPARISON_HISTORY
        /\ \A i \in Occupied : i <= COMPARISON_HISTORY

C17_Witness ==
    /\ pc = "done"
    /\ run = 8
    /\ Occupied = 1..COMPARISON_HISTORY
    /\ snapshotFile.content.run = 8
    /\ slots[1].content.run = 7
    /\ slots[COMPARISON_HISTORY].content.run = 3

-----------------------------------------------------------------------------
(* Properties of the persisted snapshot *)

\* the previous mapping a run starting now would build
LoadedPrevious == build_alert_dict(load_json(snapshotFile).alerts)

\* C18: the snapshot a run has written, loaded as previous, gives a mapping
\* with the keys and the records, field by field, of that run's current
\* mapping; the previous mapping of a run is what the snapshot file gives;
\* and a site at the same level in both mappings yields no change.
C18_SnapshotRoundTrip ==
    /\ pc = "done" => LoadedPrevious = Curr
    /\ pc = "notify" => prev_alerts_dict = LoadedPrevious
    /\ pc \in RunPcs =>
          \A i \in 1..Len(Curr) :
              (InBoth(i) /\ PrevLevel(i) = CurLevel(i)) => CountAny(Curr[i].val) = 0

C18_Witness ==
    /\ script = "live"
    /\ pc = "notify"
    /\ Len(prev_alerts_dict) = 2
    /\ prev_alerts_dict = LoadedPrevious
    /\ \E i \in 1..Len(Curr) :
          /\ InBoth(i)
          /\ PrevLevel(i) = "High" /\ CurLevel(i) = "High"
          /\ DictGet(prev_alerts_dict, Curr[i].key).raw_dynamic_score = 17100
          /\ DictGet(prev_alerts_dict, Curr[i].key).latitude = 4000004
          /\ CountAny(Curr[i].val) = 0

-----------------------------------------------------------------------------
(* Properties of the classifiers *)

LevelNames == {"None", "Low", "Medium", "High", "Extreme"}

\* the raw score of an input of calculate_dynamic_risk_raw, over 200000:
\* the base risk and the rain clamped at 0, times 0.95 + 0.05 per
\* seventeenth of soil fraction in 0..1, times 1 + 0.01 per 20 % of humidity
\* in 0..100 %
RawScore(x) ==
    (IF x.base_risk < 0 THEN 0 ELSE x.base_risk)
        * (IF x.rain < 0 THEN 0 ELSE x.rain)
        * (19 + (IF x.soil < 0 THEN 0 ELSE IF x.soil > 17 THEN 17 ELSE x.soil))
        * (100 + (IF x.rh < 0 THEN 0 ELSE IF x.rh > 5 THEN 5 ELSE x.rh))

\* C19: each classifier returns one of None, Low, Medium, High, Extreme for
\* every input, None and negative values included, and is monotonic: an
\* input with a raw score (a return period) at least that of the classified
\* one gets a level at least as high.
C19_ClassifiersTotalMonotonic ==
    pc = "returned" =>
        /\ ret.level \in LevelNames
        /\ arg.fn = "calculate_dynamic_risk_raw" =>
              \A y \in RiskInputs :
                  RawScore(arg.x) <= RawScore(y) =>
                      Ord(ret.level) <= Ord(calculate_dynamic_risk_raw(
                                              y.base_risk, y.rain, y.rh, y.soil).level)
        /\ (arg.fn = "return_period_to_level" /\ arg.x # <<>>) =>
              \A y \in ReturnPeriods \ { <<>> } :
                  arg.x[1] <= y[1] => Ord(ret.level) <= Ord(return_period_to_level(y))

C19_Witness ==
    /\ pc = "returned"
    /\ arg.fn = "calculate_dynamic_risk_raw"
    /\ arg.x.rain < 0
    /\ arg.x.base_risk > 0
    /\ ret.level = "None"

-----------------------------------------------------------------------------
(* Properties of sequences of runs *)

\* the run loaded nothing: no previous alert and no ledger entry
LoadedNothing == prev_alerts_dict = <<>> /\ loaded_ledger = <<>>

\* the positions of the current mapping at Medium, High or Extreme
NotifiablePositions == { i \in 1..Len(Curr) : CurLevel(i) \in Notifiable }



\* C21: in a run of either evaluator that loaded no previous alert and no
\* ledger entry, the diff holds one New for each site at Medium, High or
\* Extreme and nothing else, and the ledger the run saves has an entry for
\* exactly those sites, each with the site's level as risk_level.
C21_FirstRunNewAndLedger ==
    (pc \in RunPcs /\ LoadedNothing) =>
        /\ Len(changes) = Cardinality(NotifiablePositions)
        /\ \A j \in 1..Len(changes) : Kind(j) = "New"
        /\ \A i \in 1..Len(Curr) :
              Count("New", Curr[i].val) = (IF i \in NotifiablePositions THEN 1 ELSE 0)
        /\ Saved =>
              /\ DOMAIN ledgerFile.content
                    = { LedgerKey(Curr[i].val) : i \in NotifiablePositions }
              /\ \A i \in NotifiablePositions :
                    ledgerFile.content[LedgerKey(Curr[i].val)].risk_level = CurLevel(i)

C21_Witness ==
    /\ script = "live"
    /\ pc = "write"
    /\ ~snapshotFile.exists
    /\ LoadedNothing
    /\ Len(Curr) = 2
    /\ CurLevel(1) = "Extreme" /\ CurLevel(2) = "Low"
    /\ Curr[1].val.raw_dynamic_score > 35000
    /\ changes = << <<"New", Curr[1].val>> >>
    /\ DOMAIN ledgerFile.content = { LedgerKey(Curr[1].val) }
    /\ ledgerFile.content[LedgerKey(Curr[1].val)].risk_level = "Extreme"

\* the level the r-th remembered run gave the site of key k
TrailLevel(r, k) ==
    IF k \in DOMAIN trail[r].levels THEN trail[r].levels[k] ELSE "absent"

\* C22: for a site the last completed run evaluated at Low and this run
\* evaluates at Medium, the diff holds exactly one change, an Upgrade (a New
\* if the site is not in the previous mapping); for a site the last two
\* completed runs evaluated at Low then Medium and this run evaluates at Low,
\* the diff holds exactly one change, a Downgrade, the loaded ledger has the
\* entry the second run wrote, and the loop notifies the Downgrade.
C22_LowMediumLow ==
    pc \in RunPcs =>
        \A i \in 1..Len(Curr) :
            LET k == Curr[i].key
                n == Len(trail)
            IN /\ (n >= 1 /\ TrailLevel(n, k) = "Low" /\ CurLevel(i) = "Medium") =>
                     /\ CountAny(Curr[i].val) = 1
                     /\ Count(IF InBoth(i) THEN "Upgrade" ELSE "New", Curr[i].val) = 1
               /\ (n >= 2 /\ TrailLevel(n - 1, k) = "Low" /\ TrailLevel(n, k) = "Medium"
                     /\ CurLevel(i) = "Low") =>
                     /\ CountAny(Curr[i].val) = 1
                     /\ Count("Downgrade", Curr[i].val) = 1
                     /\ LedgerKey(Curr[i].val) \in DOMAIN loaded_ledger
                     /\ loaded_ledger[LedgerKey(Curr[i].val)].risk_level = "Medium"
                     /\ \A j \in 1..idx : changes[j][2] = Curr[i].val => Tweeted(j)
                     /\ Saved => \E j \in 1..idx : changes[j][2] = Curr[i].val

C22_Witness ==
    /\ pc = "done"
    /\ Len(trail) = 2
    /\ \E i \in 1..Len(Curr) :
          /\ TrailLevel(1, Curr[i].key) = "Low"
          /\ TrailLevel(2, Curr[i].key) = "Medium"
          /\ Curr[i].key \in trail[2].notified
          /\ CurLevel(i) = "Low"
          /\ \E t \in 1..Len(tweets) : tweets[t] = <<"Downgrade", Curr[i].val>>

\* the positions of the previous mapping whose site this run did not evaluate
Dropped == { p \in 1..Len(prev_alerts_dict) : ~DictHas(Curr, prev_alerts_dict[p].key) }

\* C23: a site of the previous mapping that is not in the current one gets no
\* change of any kind and no call of tweet_alert, whatever its previous
\* level, and the snapshot the run writes holds no record of it.
C23_AbsentSiteDropped ==
    pc \in RunPcs =>
        \A p \in Dropped :
            LET k == prev_alerts_dict[p].key IN
            /\ \A j \in 1..Len(changes) : AlertKey(changes[j][2]) # k
            /\ \A t \in 1..Len(tweets) : AlertKey(tweets[t][2]) # k
            /\ pc = "done" =>
                  \A a \in 1..Len(snapshotFile.content.alerts) :
                      AlertKey(snapshotFile.content.alerts[a]) # k

C23_Witness ==
    /\ pc = "done"
    /\ Len(prev_alerts_dict) = 2
    /\ Len(Curr) = 1
    /\ \E p \in Dropped : prev_alerts_dict[p].val.dynamic_level = "Extreme"
    /\ Len(changes) = 1
    /\ Len(snapshotFile.content.alerts) = 1

-----------------------------------------------------------------------------
(* Properties of the rate limit *)

\* C24: in a run, every send after the first starts at least
\* MIN_SECONDS_BETWEEN_TWEETS after the previous send returned; before each
\* send the loop sleeps the remainder of the floor when less than the floor
\* has passed since the previous send and does not sleep otherwise; the
\* first send is not delayed; and a suppressed glofas downgrade is not sent,
\* does not sleep and leaves last_tweet_ts as it was.
C24_SendsSpaced ==
    /\ \A s \in 1..Len(sends) :
          LET elapsed == sends[s].now_ts - sends[s].last IN
          /\ sends[s].last = (IF s = 1 THEN 0 ELSE sends[s - 1].until)
          /\ sends[s].slept = (IF elapsed < MIN_SECONDS_BETWEEN_TWEETS
                               THEN MIN_SECONDS_BETWEEN_TWEETS - elapsed ELSE 0)
          /\ sends[s].at >= sends[s].now_ts + sends[s].slept
          /\ s = 1 => sends[s].slept = 0 /\ sends[s].at = sends[s].now_ts
          /\ s > 1 =>
                /\ sends[s].at - sends[s - 1].until >= MIN_SECONDS_BETWEEN_TWEETS
                /\ sends[s].at - sends[s - 1].at >= MIN_SECONDS_BETWEEN_TWEETS
    /\ last_tweet_ts = (IF sends = <<>> THEN 0 ELSE sends[Len(sends)].until)
    /\ Len(sends) + Len(skipped) = idx
    /\ \A k \in 1..Len(skipped) :
          /\ script = "glofas"
          /\ skipped[k][1] = "Downgrade"
          /\ \A s \in 1..Len(sends) : sends[s].change # skipped[k]

C24_Witness ==
    /\ script = "glofas"
    /\ idx = 3
    /\ Len(sends) = 2
    /\ Len(skipped) = 1
    /\ changes[2] = skipped[1]
    /\ sends[1].slept = 0
    /\ sends[2].slept = 18
    /\ sends[2].at - sends[1].until = MIN_SECONDS_BETWEEN_TWEETS

-----------------------------------------------------------------------------
(* Properties of two processes on the same files *)

\* the second process has saved its ledger
PeerSaved == peer.pc \in {"rotate", "write", "done"}

\* a change both processes called tweet_alert for
NotifiedByBoth ==
    \E t \in 1..Len(tweets) : \E u \in 1..Len(peer.tweets) : tweets[t] = peer.tweets[u]

\* C25: the files are read when a run starts and written whole when it ends,
\* with nothing that keeps two processes apart.  When the second process
\* loads after the first returned, it loads the snapshot the first wrote, no
\* change is notified by both and no change twice by one, and (glofas) no
\* ledger entry of the first is lost.  Once both saved, the ledger file is
\* the ledger of one of them alone.  (That both notify the same change and
\* the entries of one are lost when they overlap is the witness.)
C25_OverlapUnguarded ==
    peer.pc # "idle" =>
        /\ ~overlapped =>
              /\ peer.prev_alerts_dict
                    = build_alert_dict(SnapshotWritten(Result(alerts)).alerts)
              /\ ~NotifiedByBoth
              /\ \A t, u \in 1..Len(tweets) : tweets[t] = tweets[u] => t = u
              /\ \A t, u \in 1..Len(peer.tweets) : peer.tweets[t] = peer.tweets[u] => t = u
              /\ (script = "glofas" /\ PeerSaved) =>
                    DOMAIN tweeted_alerts \subseteq DOMAIN ledgerFile.content
        /\ (Saved /\ PeerSaved) =>
              \/ ledgerFile.content = LedgerWritten(tweeted_alerts)
              \/ ledgerFile.content = LedgerWritten(peer.tweeted_alerts)

C25_Witness ==
    /\ overlapped
    /\ pc = "done"
    /\ peer.pc = "done"
    /\ peer.prev_alerts_dict = prev_alerts_dict
    /\ NotifiedByBoth
    /\ \E k \in DOMAIN tweeted_alerts : k \notin DOMAIN ledgerFile.content
    /\ ledgerFile.content = LedgerWritten(peer.tweeted_alerts)

\* among the remembered runs, the site of key k was last notified at the
\* level lvl and no later run evaluated it at another level
NotifiedAtAndUnchanged(k, lvl) ==
    \E r \in 1..Len(trail) :
        /\ k \in trail[r].notified
        /\ trail[r].levels[k] = lvl
        /\ \A q \in (r + 1)..Len(trail) :
              /\ k \notin trail[q].notified
              /\ k \in DOMAIN trail[q].levels => trail[q].levels[k] = lvl

\* C26: a live run does not call tweet_alert for a site that is at Medium,
\* High or Extreme and whose level has not changed since the run that last
\* notified it, also when runs in between skipped the site.
C26_NotNotifiedAgain ==
    (script = "live" /\ pc \in RunPcs) =>
        \A t \in 1..Len(tweets) :
            LET alert == tweets[t][2] IN
            alert.dynamic_level \in Notifiable =>
                ~NotifiedAtAndUnchanged(AlertKey(alert), alert.dynamic_level)

-----------------------------------------------------------------------------
(* Properties of compare_alerts as a function *)

\* the position in the current mapping of the site of the j-th change
PositionOf(j) ==
    CHOOSE i \in 1..Len(Curr) : Curr[i].key = AlertKey(changes[j][2])

\* C27: what compare_alerts returns holds at most one change for each key of
\* current, of kind New, Upgrade or Downgrade; each change carries the record
\* current holds for its key; the changes come in the order of current; and
\* the call leaves the previous snapshot and the alerts list as they were.
C27_DiffShape ==
    /\ [](pc = "diffed" =>
            /\ \A i \in 1..Len(Curr) :
                  Cardinality({ j \in 1..Len(changes) :
                                  AlertKey(changes[j][2]) = Curr[i].key }) <= 1
            /\ \A j \in 1..Len(changes) :
                  /\ changes[j][1] \in {"New", "Upgrade", "Downgrade"}
                  /\ DictHas(Curr, AlertKey(changes[j][2]))
                  /\ changes[j][2] = DictGet(Curr, AlertKey(changes[j][2]))
            /\ \A j1, j2 \in 1..Len(changes) :
                  j1 < j2 => PositionOf(j1) < PositionOf(j2)
            /\ prev_alerts_dict = build_alert_dict(load_json(snapshotFile).alerts))
    /\ [][pc' = "diffed" => alerts' = alerts /\ snapshotFile' = snapshotFile]_vars

C27_Witness ==
    /\ pc = "diffed"
    /\ Len(alerts) = 2
    /\ Len(Curr) = 2
    /\ Len(changes) = 2
    /\ changes[1][1] = "Downgrade"
    /\ changes[2][1] \in {"New", "Upgrade"}
    /\ Curr[1].key = AlertKey(SITES[2])
    /\ DictGet(prev_alerts_dict, Curr[1].key) # changes[1][2]

\* whether a fetch of this run was answered with a body without time series
MalformedFetched ==
    \E i \in 1..Len(fetches) :
        \E a \in 1..MAX_RETRIES : fetches[i].responses[a].json = NO_TIME_SERIES

\* C28: in the live evaluator a fetched payload with no hourly time series
\* does not abort the run: once such a payload was fetched the run is at its
\* notifications or beyond, not ended by an exception
C28_MalformedPayloadTolerated ==
    MalformedFetched => pc \in RunPcs

\* C29: in the GloFAS evaluator a hotspot whose return period is unknown
\* (key missing, or there with None) is turned into an alert with
\* dynamic_level Medium without raising
C29_UnknownReturnPeriodMedium ==
    (/\ pc = "returned"
     /\ arg.fn = "build_alert_from_hotspot"
     /\ Get(arg.x, "return_period", <<>>) = <<>>)
        => /\ "alert" \in DOMAIN ret
           /\ ret.alert.dynamic_level = "Medium"

\* C30: for any set of files among the base path and the paths 1..N,
\* rotate_comparison_snapshots does not fail and makes no file from nothing;
\* a missing file is skipped and the gap it leaves is one index up afterwards;
\* the files that remain keep their order of recency; and with no base file
\* path 1 is left empty.
C30_RotateAnySubset ==
    pc = "returned" =>
        LET N == arg.max_history
            Held == { k \in 0..N : ret[k].exists }
            From(k) == CHOOSE j \in 0..N : arg.fs[j] = ret[k]
        IN /\ DOMAIN ret = DOMAIN arg.fs
           /\ \A k \in Held : \E j \in 0..N : arg.fs[j].exists /\ arg.fs[j] = ret[k]
           /\ \A i \in 1..(N - 1) : ~arg.fs[i].exists => ~ret[i + 1].exists
           /\ \A k1, k2 \in Held : k1 < k2 => From(k1) < From(k2)
           /\ ~arg.fs[0].exists => ~ret[1].exists

\* C31: in the news bot, over the runs of one UTC day whose saves of the log
\* succeeded, no more than NEWS_TWEETS_LIMIT news tweets, one statistical
\* tweet and one infrastructure tweet are posted, and no run posts more than
\* three news tweets; the log counts a tweet only if post_tweet returned
\* True, so its count of the day is the number posted.
C31_DailyCaps ==
    /\ posted.saved =>
          /\ posted.news <= NEWS_TWEETS_LIMIT
          /\ posted.statistical <= STAT_TWEETS_LIMIT
          /\ posted.infrastructure <= INFRA_TWEETS_LIMIT
          /\ \A type \in {"news", "statistical", "infrastructure"} :
                count_tweets_today(load_processed_articles(newsFile), today, type)
                    = posted[type]
    /\ Cardinality(lastRun.tweeted) <= PER_RUN_CAP
    /\ lastRun.tweeted \subseteq lastRun.attempted

\* a later news run of the day posts the tweet that fills the limit of the day
C31_LimitReached ==
    /\ posted.saved
    /\ posted.news = NEWS_TWEETS_LIMIT
    /\ lastRun.type = "news"
    /\ lastRun.tweeted # {}
    /\ Cardinality(lastRun.tweeted) < NEWS_TWEETS_LIMIT

\* C32: in the news bot, a link the log holds when a run starts is neither
\* scored nor tweeted by that run, whatever became of the article in the run
\* that recorded it (posted, refused by post_tweet, or left outside the cap
\* of the run): there is no second attempt.
C32_NoRetry ==
    [][ run' # run =>
          LET processed == load_processed_articles(newsFile)
              filtered_links == { processed[i].link : i \in DOMAIN processed } \ {""}
          IN filtered_links \cap (lastRun'.scored \cup lastRun'.attempted
                                      \cup lastRun'.tweeted) = {} ]_vars

\* a news run on a later day scored articles of a feed that also carried an
\* article an earlier run had scored at the threshold and not posted; the
\* run left it alone and the log holds no posted entry of it
C32_LeftAlone ==
    /\ lastRun.type = "news"
    /\ lastRun.scored # {}
    /\ \E i \in DOMAIN load_processed_articles(newsFile) :
          LET processed == load_processed_articles(newsFile)
              entry == processed[i]
          IN /\ entry.status = "processed"
             /\ entry.score >= TWEET_THRESHOLD
             /\ entry.date < today
             /\ entry.link \in lastRun.feed
             /\ entry.link \notin lastRun.scored
             /\ \A j \in DOMAIN processed :
                   processed[j].link = entry.link => processed[j].status # "posted"

\* the keys of the reply log in a file
LoggedKeys(file) ==
    IF LoadRaises(file) THEN {} ELSE { entry.key : entry \in load_reply_log(file) }

\* C33: in the news bot, a key enters the reply log only in a run whose
\* reply was posted, and it is the key of the tweet replied to; a run never
\* selects a tweet whose key the log holds; a run that posts no reply leaves
\* the log as it was, so its tweet can be selected again.
C33_ReplyLog ==
    [][ run' # run =>
          /\ LoggedKeys(replyFile') \ LoggedKeys(replyFile) # {} =>
                /\ lastRun'.replied
                /\ LoggedKeys(replyFile') \ LoggedKeys(replyFile)
                      = { ReplyKey(lastRun'.selected[1]) }
          /\ lastRun'.selected # <<>> =>
                ReplyKey(lastRun'.selected[1]) \notin LoggedKeys(replyFile)
          /\ ~lastRun'.replied =>
                /\ replyFile' = replyFile
                /\ lastRun'.selected # <<>> =>
                      pick_most_recent_tweet(lastRun'.selected, load_reply_log(replyFile'))
                          = lastRun'.selected ]_vars

\* with the reply to the most recent tweet in the log since an earlier day,
\* a run selected the next tweet and its reply was not posted
C33_FailedAfterLogged ==
    /\ lastRun.type = "reply"
    /\ lastRun.selected = << TWEET_IDS[2] >>
    /\ ~lastRun.replied
    /\ LoggedKeys(replyFile) = { ReplyKey(TWEET_IDS[1]) }

\* C34: in the glofas evaluator, from no snapshot and no ledger and with
\* complete runs only, between two runs every site of the persisted snapshot
\* at Medium, High or Extreme has a ledger entry under its key with that
\* level; no run skips a Downgrade; and a key that enters the ledger does not
\* enter it resolved.
C34_LedgerFollowsSnapshot ==
    /\ [](pc = "idle" =>
            \A i \in 1..Len(LoadedPrevious) :
                LET a == LoadedPrevious[i].val
                    ledger == load_tweeted_alerts(ledgerFile)
                IN InList(a.dynamic_level, TWEET_LEVELS) =>
                      /\ LedgerKey(a) \in DOMAIN ledger
                      /\ ledger[LedgerKey(a)].risk_level = a.dynamic_level)
    /\ [](skipped = <<>>)
    /\ [][ \A k \in DOMAIN tweeted_alerts' :
              (pc = "notify" /\ k \notin DOMAIN tweeted_alerts) =>
                  "resolved" \notin DOMAIN tweeted_alerts'[k] ]_vars

\* C35: in the glofas evaluator, the run that skips a Downgrade persists the
\* record of the site at its new level; and in a later run that finds the
\* site at the level it has had since the skip, the diff holds no change for
\* it and its key is in the ledger neither in memory nor once saved.
C35_SuppressedNotRetried ==
    /\ pc = "done" =>
          \A t \in 1..Len(skipped) :
              /\ DictHas(LoadedPrevious, AlertKey(skipped[t][2]))
              /\ DictGet(LoadedPrevious, AlertKey(skipped[t][2])).dynamic_level
                    = skipped[t][2].dynamic_level
    /\ (pc \in RunPcs /\ trail # <<>>) =>
          \A i \in 1..Len(Curr) :
              (/\ Curr[i].key \in trail[1].suppressed
               /\ CurLevel(i) = trail[1].levels[Curr[i].key]) =>
                  /\ CountAny(Curr[i].val) = 0
                  /\ LedgerKey(Curr[i].val) \notin DOMAIN tweeted_alerts
                  /\ Saved => LedgerKey(Curr[i].val) \notin DOMAIN ledgerFile.content

\* a site whose Downgrade an earlier run skipped has kept its level up to the
\* end of this run, which skipped nothing and notified another site
C35_StillQuiet ==
    /\ pc = "done"
    /\ trail # <<>>
    /\ trail[1].suppressed # {}
    /\ trail[1].notified = {}
    /\ skipped = <<>>
    /\ tweets # <<>>
    /\ \E i \in 1..Len(Curr) :
          /\ Curr[i].key \in trail[1].suppressed
          /\ CurLevel(i) = trail[1].levels[Curr[i].key]

\* C36: in the glofas evaluator the ledger is saved and the snapshots are
\* rotated before the new snapshot is written: when the write is reached the
\* ledger file holds the ledger of the run, the base path is absent and the
\* old base snapshot, if there was one, is at path 1.  A run whose write
\* raised leaves the base path absent and the saved ledger in place, and a
\* run that then starts loads an empty previous mapping and emits one New for
\* each site at Medium, High or Extreme.
C36_WriteFailureAfterRotate ==
    script = "glofas" =>
        /\ pc = "write" =>
              /\ ledgerFile = FileOf(LedgerWritten(tweeted_alerts))
              /\ ~snapshotFile.exists
              /\ prev_alerts_dict # <<>> => slots[1]
        /\ pc = "write_raised" =>
              /\ ~snapshotFile.exists
              /\ ledgerFile.exists /\ ledgerFile.parses
        /\ (pc = "notify" /\ ~snapshotFile.exists) =>
              /\ prev_alerts_dict = <<>>
              /\ \A i \in 1..Len(Curr) :
                    Count("New", Curr[i].val) = (IF CurLevel(i) \in Notifiable THEN 1 ELSE 0)

\* the keys of the changes the loop has called tweet_alert for
NotifiedKeys == { KeyOf(j) : j \in { i \in 1..idx : Tweeted(i) } }

\* the keys a live run removes when it cleans the ledger
CleanedKeys == IF script = "live" THEN (DOMAIN loaded_ledger) \ valid_coords ELSE {}

\* the ledger keys of the sites of the current mapping
CurrLedgerKeys == { LedgerKey(Curr[i].val) : i \in 1..Len(Curr) }

\* the ledger keys of the sites this run evaluates at None or Low without
\* having them in the previous mapping
BackLowKeys ==
    { LedgerKey(Curr[i].val) :
        i \in { n \in 1..Len(Curr) : ~InBoth(n) /\ CurLevel(n) \notin Notifiable } }

\* C37: in both evaluators, every ledger entry in memory and, once saved, on
\* disk under a key the run has not notified is the entry that was loaded,
\* and a loaded key is missing only through the cleanup of the live
\* evaluator; so the entry at Medium, High or Extreme, not resolved, of a
\* site that is not in the current mapping, or is back at None or Low after
\* being absent from the previous one, is saved as it was loaded.
C37_OnlyNotifiedEntriesChange ==
    pc \in RunPcs =>
        /\ \A k \in (DOMAIN tweeted_alerts) \ NotifiedKeys :
              k \in DOMAIN loaded_ledger /\ tweeted_alerts[k] = loaded_ledger[k]
        /\ (DOMAIN loaded_ledger) \ (DOMAIN tweeted_alerts) = CleanedKeys
        /\ Saved =>
              /\ \A k \in (DOMAIN ledgerFile.content) \ NotifiedKeys :
                    k \in DOMAIN loaded_ledger /\ ledgerFile.content[k] = loaded_ledger[k]
              /\ (DOMAIN loaded_ledger) \ (DOMAIN ledgerFile.content) = CleanedKeys
              /\ \A k \in (DOMAIN loaded_ledger) \ CleanedKeys :
                    (/\ loaded_ledger[k].risk_level \in Notifiable
                     /\ ~HasResolved(loaded_ledger[k])
                     /\ (k \notin CurrLedgerKeys \/ k \in BackLowKeys)) =>
                        ledgerFile.content[k] = loaded_ledger[k]

\* a run ends with the ledger still holding, not resolved, the High entry of
\* a site that is back at Low after being absent, beside an entry the run
\* wrote
C37_StaleEntryKept ==
    /\ pc = "done"
    /\ NotifiedKeys # {}
    /\ \E k \in BackLowKeys :
          /\ k \in DOMAIN loaded_ledger
          /\ loaded_ledger[k].risk_level = "High"
          /\ ~HasResolved(loaded_ledger[k])
          /\ ledgerFile.content[k] = loaded_ledger[k]

\* the last record of alerts that has the key
LastWith(key) ==
    alerts[CHOOSE n \in 1..Len(alerts) :
              /\ AlertKey(alerts[n]) = key
              /\ \A m \in (n + 1)..Len(alerts) : AlertKey(alerts[m]) # key]

\* C38: when two records of the alerts of a run have the same rounded key,
\* the current mapping holds that key once, with the last of them; the diff
\* has at most one change for the key, carrying that record; the run writes
\* at most one ledger entry for it, under the ledger key of that record and
\* at its level; and the snapshot written holds every record of alerts and
\* their number.
C38_CollisionLastWins ==
    (script = "glofas" /\ pc \in RunPcs) =>
        \A i, j \in 1..Len(alerts) :
            (i < j /\ AlertKey(alerts[i]) = AlertKey(alerts[j])) =>
                LET key == AlertKey(alerts[j])
                    About == { c \in 1..Len(changes) : AlertKey(changes[c][2]) = key }
                    Written == { k \in NotifiedKeys : AlertKey(tweeted_alerts[k]) = key }
                IN /\ Cardinality({ n \in 1..Len(Curr) : Curr[n].key = key }) = 1
                   /\ DictGet(Curr, key) = LastWith(key)
                   /\ Cardinality(About) <= 1
                   /\ \A c \in About : changes[c][2] = LastWith(key)
                   /\ Cardinality(Written) <= 1
                   /\ \A k \in Written :
                         /\ k = LedgerKey(LastWith(key))
                         /\ tweeted_alerts[k].risk_level = LastWith(key).dynamic_level
                   /\ pc = "done" =>
                         /\ snapshotFile.content.alerts = alerts
                         /\ snapshotFile.content.features_evaluated = Len(alerts)

\* a run evaluated two hotspots of one rounded key, the first at Extreme and
\* the last at High, notified the one New at High and persisted both records
C38_BothPersisted ==
    /\ script = "glofas"
    /\ pc = "done"
    /\ Len(alerts) = 2
    /\ AlertKey(alerts[1]) = AlertKey(alerts[2])
    /\ LedgerKey(alerts[1]) = LedgerKey(alerts[2])
    /\ alerts[1].dynamic_level = "Extreme"
    /\ alerts[2].dynamic_level = "High"
    /\ tweets = << <<"New", alerts[2]>> >>
    /\ ledgerFile.content[LedgerKey(alerts[2])].risk_level = "High"
    /\ Len(snapshotFile.content.alerts) = 2

====
